---- MODULE Spec2Model ----
(***************************************************************************)
(* Camera framing and pointer interaction of the campusvt 3D viewers.      *)
(*                                                                         *)
(* Two programs are modelled:                                              *)
(*   - Scene3D, the scene module of the multi-model application            *)
(*     (src/unnamed/part_001), under SpecScene, and its touch handlers     *)
(*     under SpecTouch;                                                    *)
(*   - the single-model viewer (src/viewer3d_standalone.js, of which       *)
(*     src/campusvt-main/viewer3d.js and src/viewer3d_module.js are        *)
(*     near copies), under SpecViewer.                                     *)
(*                                                                         *)
(* Numbers are fixed point.  Lengths are integers in 1/100 of a scene      *)
(* unit (1.0 is 100), angles are integers in centiradians (0.01 rad, so    *)
(* pi is 314), unit vectors and trigonometric values are scaled by 1000,   *)
(* pointer coordinates are pixels.  TLC integers are 32 bit: products are  *)
(* staged so that no intermediate value exceeds 2^31.                      *)
(***************************************************************************)
EXTENDS Integers, Sequences, FiniteSets, TLC

VARIABLES
    \* ---- Scene3D (src/unnamed/part_001) ----
    camPos,         \* Scene3D.camera.position
    camDir,         \* the camera's view direction (its quaternion), x1000
    camAim,         \* the point of the last camera.lookAt
    loadedModels,   \* Scene3D.loadedModels, a sequence of model ids
    savedView,      \* Scene3D.savedView
    mouseControls,  \* Scene3D.mouseControls
    lastOp,         \* history: the camera operation the last event performed
    lastRot,        \* history: the last rotateCamera call
    lastFit,        \* history: the last fitModelToView / fitAllModelsToView call
    before,         \* history: camera position and aim before the last event
    steps,          \* number of events handled so far
    touches,        \* event.touches: the fingers on the canvas, <<x, y>> each
    checkedRadio,   \* the checked input[name="mobileMode"], "none" without one
    touchHist,      \* history: the touch contacts and the last touch-move frame
    dragHist,       \* history: the pointer positions of the current mouse drag
    panTarget,      \* history: the point init, a fit or a reset last aimed at
                    \* (base) and the sum of the mouse pans since (shift)
    \* ---- single-model viewer (src/viewer3d_standalone.js) ----
    vCamPos,        \* camera.position
    vCamDir,        \* the camera's view direction, x1000
    currentModel,   \* currentModel: the object, its position, box and rotation
    sceneObjs,      \* the model objects that are children of the scene
    objRotation,    \* rotation of every model object in the scene, <<x, y>>
    autoCube,       \* the timer of the automatic test cube has not fired yet
    testCubeTimer,  \* the test cube whose removal timer runs, 0 without one
    controls,       \* controls
    loaderShown,    \* the loading indicator is visible
    pending,        \* file reads in flight
    nextObj,        \* identity of the next object a parser creates
    vLastOp,        \* history: what the last event did
    vLastFit,       \* history: the last autoFitModel call
    vSteps,         \* number of events handled so far
    \* ---- ModelLoader (src/js/modelloader.js) ----
    calls,          \* the loadFiles calls made so far, each with its closure
    isLoading,      \* ModelLoader.isLoading
    loaders,        \* ModelLoader.loaders.obj / .mtl have been created
    objMaterials,   \* the materials set in loaders.obj: <<MTL file>>, or Null
    textureCache,   \* the files that have an entry in ModelLoader.textureCache
    loaderLast,     \* history: the last step of the loader and its call
    \* ---- UI (src/unnamed/part_001) ----
    currentPage,    \* UI.currentPage: "home" or "scenario"
    uiLoaderShown,  \* UI.elements.loader is visible
    sceneModels,    \* the models UI has added to Scene3D since the last clearing
    \* ---- App (src/unnamed/part_002) ----
    appPc,          \* where the start-up chain of App.init stands
    scriptsLoaded,  \* how many of the module scripts loadModules has loaded
    defined,        \* the required modules that are defined on window
    seqIndex,       \* index of the next step of initializeModuleSequence
    initialized,    \* App.initialized
    modules,        \* the keys of App.modules
    fatalShown,     \* the fatal-error overlay is in the document
    dispatched,     \* the events App has dispatched, in order
    initLog,        \* history: the init() calls made and how each ended
    windowErrors    \* number of global error events so far

sceneVars == <<camPos, camDir, camAim, loadedModels, savedView, mouseControls,
               lastOp, lastRot, lastFit, before, steps, touches, checkedRadio,
               touchHist, dragHist, panTarget>>
viewerVars == <<vCamPos, vCamDir, currentModel, sceneObjs, objRotation, autoCube,
                testCubeTimer, controls, loaderShown, pending, nextObj, vLastOp,
                vLastFit, vSteps>>
uiVars == <<currentPage, uiLoaderShown, sceneModels>>
loaderVars == <<calls, isLoading, loaders, objMaterials, textureCache, loaderLast,
                uiVars>>
appVars == <<appPc, scriptsLoaded, defined, seqIndex, initialized, modules,
             fatalShown, dispatched, initLog, windowErrors>>
vars == <<sceneVars, viewerVars, loaderVars, appVars>>

(***************************************************************************)
(* Bounds of the exploration.                                              *)
(***************************************************************************)
MaxSteps == 4
MaxModels == 2
MaxViewerSteps == 6
MaxPending == 2
MaxTouchSteps == 5
MaxTouches == 3
MaxCalls == 2

(***************************************************************************)
(* Fixed-point arithmetic.                                                 *)
(***************************************************************************)
Abs(a) == IF a < 0 THEN -a ELSE a
Max2(a, b) == IF a >= b THEN a ELSE b
Min2(a, b) == IF a <= b THEN a ELSE b

\* a / b rounded to the nearest integer (b > 0), halves rounded up
RoundDiv(a, b) == (2 * a + b) \div (2 * b)

RECURSIVE SqrtSearch(_, _, _)
SqrtSearch(n, lo, hi) ==
    IF lo >= hi THEN lo
    ELSE LET mid == (lo + hi + 1) \div 2
         IN IF mid * mid <= n THEN SqrtSearch(n, mid, hi)
            ELSE SqrtSearch(n, lo, mid - 1)

\* floor of the square root of n, 0 <= n < 2^31
ISqrt(n) == SqrtSearch(n, 0, 46340)

\* the square root of n rounded to the nearest integer, 0 <= n < 2^31
RSqrt(n) == LET r == ISqrt(n) IN IF n - r * r > r THEN r + 1 ELSE r

Vec(a, b, c) == [x |-> a, y |-> b, z |-> c]
Zero3 == Vec(0, 0, 0)
VAdd(u, v) == Vec(u.x + v.x, u.y + v.y, u.z + v.z)
VSub(u, v) == Vec(u.x - v.x, u.y - v.y, u.z - v.z)
LengthSq(v) == v.x * v.x + v.y * v.y + v.z * v.z
DistSq(u, v) == LengthSq(VSub(u, v))

(***************************************************************************)
(* The renderer library's primitives the code calls, by what they compute. *)
(***************************************************************************)

\* Vector3.length(), rounded to the nearest 1/100
Length(v) == RSqrt(LengthSq(v))

\* v.normalize().multiplyScalar(len).  normalize() divides by
\* (length() || 1), so the zero vector stays the zero vector.  The length
\* divided by is carried with as many more decimal digits as 32 bits allow.
SetLength(v, len) ==
    LET sq == LengthSq(v)
        k == IF sq < 200000 THEN 100 ELSE IF sq < 20000000 THEN 10 ELSE 1
        l == RSqrt(sq * k * k)
    IN IF sq = 0 THEN v
       ELSE Vec(RoundDiv(v.x * len * k, l),
                RoundDiv(v.y * len * k, l),
                RoundDiv(v.z * len * k, l))

\* Math.sin on [0, pi], x1000 (Bhaskara's rational approximation, exact at
\* 0, pi/6, pi/2, 5pi/6 and pi, within 0.002 elsewhere); pi is 314
SinHalfTurn(a) == (16000 * a * (314 - a)) \div (492980 - 4 * a * (314 - a))

\* Math.sin x1000 of an angle in centiradians
Sin(a) ==
    LET r == a % 628
    IN IF r <= 314 THEN SinHalfTurn(r) ELSE -SinHalfTurn(r - 314)

\* Math.cos x1000 of an angle in centiradians
Cos(a) == Sin(a + 157)

RECURSIVE AcosSearch(_, _, _)
AcosSearch(c, lo, hi) ==
    IF lo >= hi THEN lo
    ELSE LET mid == (lo + hi) \div 2
         IN IF Cos(mid) <= c THEN AcosSearch(c, lo, mid)
            ELSE AcosSearch(c, mid + 1, hi)

\* Math.acos of c/1000, in centiradians: the angle of [0, pi] whose cosine
\* is nearest to c (the cosine decreases on [0, pi])
Acos(c) ==
    LET hi == AcosSearch(c, 0, 314)
    IN IF hi > 0 /\ (Cos(hi - 1) - c) <= (c - Cos(hi)) THEN hi - 1 ELSE hi

\* Math.atan2(x, z) in centiradians, in [-pi, pi]; atan2(0, 0) = 0
Atan2(x, z) ==
    LET sq == x * x + z * z
    IN IF sq = 0 THEN 0
       ELSE LET a == Acos(RoundDiv(z * 1000, RSqrt(sq)))
            IN IF x >= 0 THEN a ELSE -a

\* Spherical.setFromVector3(v): radius = v.length(); a zero radius gives
\* theta = phi = 0, otherwise theta = atan2(x, z), phi = acos(clamp(y / radius))
SetFromVector3(v) ==
    LET radius == Length(v)
    IN IF radius = 0
       THEN [radius |-> 0, theta |-> 0, phi |-> 0]
       ELSE [radius |-> radius,
             theta |-> Atan2(v.x, v.z),
             phi |-> Acos(Max2(-1000, Min2(1000, RoundDiv(v.y * 1000, radius))))]

\* Vector3.setFromSpherical(s)
SetFromSpherical(s) ==
    LET sinPhiRadius == RoundDiv(Sin(s.phi) * s.radius, 10)
    IN Vec(RoundDiv(sinPhiRadius * Sin(s.theta), 100000),
           RoundDiv(Cos(s.phi) * s.radius, 1000),
           RoundDiv(sinPhiRadius * Cos(s.theta), 100000))

\* The view direction (x1000) camera.lookAt(target) gives a camera at pos.
\* Matrix4.lookAt aims along -z when the eye is the target.
LookDir(pos, target) ==
    IF pos = target THEN Vec(0, 0, -1000)
    ELSE SetLength(VSub(target, pos), 1000)

\* column 0 of camera.matrix, the camera's right axis (x1000): up x (-dir)
\* for the camera's up vector (0, 1, 0)
RightAxis(dir) ==
    IF dir.x = 0 /\ dir.z = 0 THEN Vec(1000, 0, 0)
    ELSE SetLength(Vec(-dir.z, 0, dir.x), 1000)

\* column 1 of camera.matrix, the camera's up axis (x1000): (-dir) x right
UpAxis(dir) ==
    LET r == RightAxis(dir)
    IN Vec(RoundDiv((-dir.y) * r.z, 1000),
           RoundDiv((-dir.z) * r.x - (-dir.x) * r.z, 1000),
           RoundDiv(-((-dir.y) * r.x), 1000))

(***************************************************************************)
(* Box3.  An empty box (an object without geometry) has size and centre    *)
(* (0, 0, 0).                                                              *)
(***************************************************************************)
EmptyBox == [empty |-> TRUE, min |-> Zero3, max |-> Zero3]
Box(lo, hi) == [empty |-> FALSE, min |-> lo, max |-> hi]

\* Box3.union of two boxes, as expandByObject grows a box
ExpandBy(b, c) ==
    IF c.empty THEN b
    ELSE IF b.empty THEN c
    ELSE Box(Vec(Min2(b.min.x, c.min.x), Min2(b.min.y, c.min.y), Min2(b.min.z, c.min.z)),
             Vec(Max2(b.max.x, c.max.x), Max2(b.max.y, c.max.y), Max2(b.max.z, c.max.z)))

\* Box3.getSize
GetSize(b) == IF b.empty THEN Zero3 ELSE VSub(b.max, b.min)

\* Box3.getCenter
GetCenter(b) ==
    IF b.empty THEN Zero3
    ELSE Vec((b.min.x + b.max.x) \div 2, (b.min.y + b.max.y) \div 2,
             (b.min.z + b.max.z) \div 2)

MaxDim(size) == Max2(size.x, Max2(size.y, size.z))

(***************************************************************************)
(* Scene3D: configuration and constants (src/unnamed/part_001).            *)
(***************************************************************************)
CameraFov == 75                    \* AppConfig.scene3D.camera.fov, degrees
InitialPosition == Vec(0, 0, 500)  \* AppConfig.scene3D.camera.initialPosition
RotationSensitivity == 1           \* sensitivity.rotation 0.01 rad per pixel
PanPixelsPerStep == 5              \* sensitivity.pan 0.002: 1/100 per 5 pixels
WheelUnitsPerStep == 2             \* sensitivity.zoom 0.005: 1/100 per 2 wheel units
ZoomMinDistance == 100             \* zoomCamera minDistance 1.0
ZoomMaxDistance == 1000            \* zoomCamera maxDistance 10.0
FitMinDistance == 100              \* fitModelToView minDistance 1.0
FitMaxDistance == 1000             \* fitModelToView maxDistance 10.0
FitMargin == 15                    \* fitModelToView margin 1.5, in tenths
FitAllMargin == 20                 \* fitAllModelsToView margin 2.0, in tenths
PhiMin == 10                       \* 0.1 rad
PhiMax == 304                      \* Math.PI - 0.1 rad

\* Math.tan(fov / 2) x1000 for the field of view in degrees; the camera's
\* field of view is 75 in every variant and is never changed
TanHalfFov(fov) == CASE fov = 75 -> 767 [] fov = 90 -> 1000 [] fov = 60 -> 577

\* The models a scenario or a file selection can add: their world bounding
\* boxes, with the position the scenario configures applied.
SceneModels == {"unit", "cube", "far", "empty"}
ModelBox(m) ==
    CASE m = "unit" -> Box(Vec(-50, -50, -50), Vec(50, 50, 50))
      [] m = "cube" -> Box(Vec(-100, -100, -100), Vec(100, 100, 100))
      [] m = "far" -> Box(Vec(1150, -50, -50), Vec(1250, 50, 50))
      [] m = "empty" -> EmptyBox

\* pointer positions (clientX, clientY) of the events
Points == {<<0, 0>>, <<100, 0>>, <<0, 200>>}
Buttons == {0, 1, 2}
WheelDeltas == {-200, 100, 200}

NoRot == [phi |-> -1]
NoFit == [kind |-> "none"]

\* null or undefined; a value v that is set is kept as <<v>>
Null == <<>>

\* the values of the mobileMode radio buttons onTouchMove knows
MobileModes == {"pan", "rotate", "zoom"}

\* no touch contact and no touch-move frame yet
NoTouchHist == [contact |-> 0, baseline |-> 0, gestureMode |-> "none",
                frame |-> [fingers |-> 0]]

(***************************************************************************)
(* Scene3D: camera movement.  A camera is [pos, dir, aim].                 *)
(***************************************************************************)
Cam(pos, dir, aim) == [pos |-> pos, dir |-> dir, aim |-> aim]

\* panCamera(deltaX, deltaY): translate along the camera's right and up axes
PanCamera(cam, deltaX, deltaY) ==
    LET r == RightAxis(cam.dir)
        u == UpAxis(cam.dir)
        d == 1000 * PanPixelsPerStep
        move == Vec(RoundDiv(r.x * (-deltaX) + u.x * deltaY, d),
                    RoundDiv(r.y * (-deltaX) + u.y * deltaY, d),
                    RoundDiv(r.z * (-deltaX) + u.z * deltaY, d))
    IN Cam(VAdd(cam.pos, move), cam.dir, cam.aim)

\* a rotateCamera that leaves the polar angle unclamped
ClampPhiNone(phi) == phi

\* the polar angle rotateCamera keeps: Math.max(0.1, Math.min(Math.PI - 0.1, phi))
ClampPhi(phi) == Max2(PhiMin, Min2(PhiMax, phi))

\* the spherical coordinates rotateCamera sets the camera position from
RotatedSpherical(pos, deltaX, deltaY) ==
    LET s == SetFromVector3(pos)
    IN [radius |-> s.radius,
        theta |-> s.theta - deltaX * RotationSensitivity,
        phi |-> ClampPhi(s.phi + deltaY * RotationSensitivity)]

\* rotateCamera(deltaX, deltaY): orbit about the origin and look at it
RotateCamera(cam, deltaX, deltaY) ==
    LET pos == SetFromSpherical(RotatedSpherical(cam.pos, deltaX, deltaY))
    IN Cam(pos, LookDir(pos, Zero3), Zero3)

\* the distance clamp of zoomCamera
ClampDistance(pos) ==
    IF LengthSq(pos) < ZoomMinDistance * ZoomMinDistance
    THEN SetLength(pos, ZoomMinDistance)
    ELSE IF LengthSq(pos) > ZoomMaxDistance * ZoomMaxDistance
         THEN SetLength(pos, ZoomMaxDistance)
         ELSE pos

\* zoomCamera(delta), delta in 1/100: move along the view direction, then
\* clamp the distance from the origin
ZoomCamera(cam, delta) ==
    LET move == Vec(RoundDiv(cam.dir.x * delta, 1000),
                    RoundDiv(cam.dir.y * delta, 1000),
                    RoundDiv(cam.dir.z * delta, 1000))
    IN Cam(ClampDistance(VAdd(cam.pos, move)), cam.dir, cam.aim)

(***************************************************************************)
(* Scene3D: framing.                                                       *)
(***************************************************************************)
\* cameraZ of fitModelToView / fitAllModelsToView for a largest dimension
\* and a margin in tenths
FitCameraZ(maxDim, margin) ==
    LET cameraZ == RoundDiv(Abs(maxDim) * 100 * margin, 2 * TanHalfFov(CameraFov))
    IN Max2(FitMinDistance, Min2(FitMaxDistance, cameraZ))

\* the box fitAllModelsToView frames: expandByObject over loadedModels
RECURSIVE ExpandByAll(_, _)
ExpandByAll(box, models) ==
    IF models = <<>> THEN box
    ELSE ExpandByAll(ExpandBy(box, ModelBox(Head(models))), Tail(models))

\* the framing of a box: what the fit routines compute and where they put
\* the camera
Framing(kind, box, margin) ==
    LET size == GetSize(box)
        center == GetCenter(box)
        cameraZ == FitCameraZ(MaxDim(size), margin)
    IN [kind |-> kind, size |-> size, center |-> center, cameraZ |-> cameraZ,
        pos |-> Vec(center.x, center.y, center.z + cameraZ),
        empty |-> box.empty, computations |-> 1]

\* fitModelToView(model)
FitModelToView(m) == Framing("single", ModelBox(m), FitMargin)

\* fitAllModelsToView()
FitAllModelsToView(models) == Framing("all", ExpandByAll(EmptyBox, models), FitAllMargin)

\* an addModel that frames the model just added, whatever else is loaded
AddModelFitNewest(models, m) == FitModelToView(m)

\* the fit addModel runs once the model is pushed
AddModelFit(models, m) ==
    IF Len(models) = 1 THEN FitModelToView(m) ELSE FitAllModelsToView(models)

(***************************************************************************)
(* Scene3D: state after Scene3D.init() and the event handlers.             *)
(***************************************************************************)
camera == Cam(camPos, camDir, camAim)

SetCamera(cam) ==
    /\ camPos' = cam.pos
    /\ camDir' = cam.dir
    /\ camAim' = cam.aim

\* history kept with every event
Handled(op) ==
    /\ steps < MaxSteps
    /\ steps' = steps + 1
    /\ lastOp' = op
    /\ before' = [pos |-> camPos, aim |-> camAim]
    /\ IF op \in {"pan", "fit", "reset"} THEN TRUE ELSE UNCHANGED panTarget
    /\ UNCHANGED <<touches, checkedRadio, touchHist>>
    /\ UNCHANGED <<viewerVars, loaderVars, appVars>>

\* history kept once the event has moved the camera
Tracked ==
    panTarget' = IF lastOp' = "pan"
                 THEN [panTarget EXCEPT !.shift = VAdd(@, VSub(camPos', camPos))]
                 ELSE IF lastOp' \in {"fit", "reset"}
                      THEN [base |-> camAim', shift |-> Zero3]
                      ELSE panTarget

\* an event that is no mouse-down and no mouse-move
Event(op) == Handled(op) /\ UNCHANGED dragHist

\* a handler that never refreshes the position kept between events
StoredPositionStale(mc, p) == mc.lastPosition

\* the position onMouseMove keeps for the next event
StoredPosition(mc, p) == p

\* initCamera, initControls and the saveCurrentView that ends init
SceneInit ==
    /\ camPos = InitialPosition
    /\ camDir = LookDir(InitialPosition, Zero3)
    /\ camAim = Zero3
    /\ loadedModels = <<>>
    /\ savedView = Cam(InitialPosition, LookDir(InitialPosition, Zero3), Zero3)
    /\ mouseControls = [isMouseDown |-> FALSE, mouseButton |-> 0,
                        lastPosition |-> <<0, 0>>, mobileMode |-> Null,
                        lastPinchDistance |-> Null, lastTwoFingerCenter |-> Null]
    /\ lastOp = "init"
    /\ lastRot = NoRot
    /\ lastFit = NoFit
    /\ before = [pos |-> InitialPosition, aim |-> Zero3]
    /\ steps = 0
    /\ touches = <<>>
    /\ checkedRadio = "none"
    /\ touchHist = NoTouchHist
    /\ dragHist = [down |-> <<0, 0>>, prev |-> <<0, 0>>, pointer |-> <<0, 0>>,
                   sum |-> <<0, 0>>]
    /\ panTarget = [base |-> Zero3, shift |-> Zero3]

\* onMouseDown
OnMouseDown ==
    \E button \in Buttons, p \in Points :
        /\ Handled("down")
        /\ mouseControls' = [mouseControls EXCEPT !.isMouseDown = TRUE,
                                !.mouseButton = button, !.lastPosition = p]
        /\ dragHist' = [down |-> p, prev |-> p, pointer |-> p, sum |-> <<0, 0>>]
        /\ lastRot' = NoRot
        /\ UNCHANGED <<camPos, camDir, camAim, loadedModels, savedView, lastFit>>

\* onMouseMove; without a button down the handler returns at once
OnMouseMove ==
    \E p \in Points :
        LET deltaX == p[1] - mouseControls.lastPosition[1]
            deltaY == p[2] - mouseControls.lastPosition[2]
        IN /\ mouseControls.isMouseDown
           /\ IF mouseControls.mouseButton = 0
              THEN /\ Handled("pan")
                   /\ SetCamera(PanCamera(camera, deltaX, deltaY))
                   /\ lastRot' = NoRot
              ELSE IF mouseControls.mouseButton = 2
                   THEN /\ Handled("rotate")
                        /\ SetCamera(RotateCamera(camera, deltaX, deltaY))
                        /\ lastRot' = [phi |-> RotatedSpherical(camPos, deltaX, deltaY).phi]
                   ELSE /\ Handled("move")
                        /\ lastRot' = NoRot
                        /\ UNCHANGED <<camPos, camDir, camAim>>
           /\ mouseControls' = [mouseControls EXCEPT
                                   !.lastPosition = StoredPosition(mouseControls, p)]
           /\ dragHist' = [dragHist EXCEPT
                             !.prev = dragHist.pointer,
                             !.pointer = p,
                             !.sum = <<@[1] + deltaX, @[2] + deltaY>>]
           /\ Tracked
           /\ UNCHANGED <<loadedModels, savedView, lastFit>>

\* onMouseUp
OnMouseUp ==
    /\ Event("up")
    /\ mouseControls' = [mouseControls EXCEPT !.isMouseDown = FALSE]
    /\ lastRot' = NoRot
    /\ UNCHANGED <<camPos, camDir, camAim, loadedModels, savedView, lastFit>>

\* onMouseWheel: delta = deltaY * sensitivity.zoom
OnMouseWheel ==
    \E deltaY \in WheelDeltas :
        /\ Event("zoom")
        /\ SetCamera(ZoomCamera(camera, deltaY \div WheelUnitsPerStep))
        /\ lastRot' = NoRot
        /\ UNCHANGED <<loadedModels, savedView, mouseControls, lastFit>>

\* addModel(model) for a model that is not null
AddModel ==
    \E m \in SceneModels :
        /\ Len(loadedModels) < MaxModels
        /\ Event("fit")
        /\ loadedModels' = Append(loadedModels, m)
        /\ LET fit == AddModelFit(loadedModels', m)
           IN /\ lastFit' = fit
              /\ SetCamera(Cam(fit.pos, LookDir(fit.pos, fit.center), fit.center))
        /\ lastRot' = NoRot
        /\ Tracked
        /\ UNCHANGED <<savedView, mouseControls>>

\* clearAllModels
ClearAllModels ==
    /\ Event("clear")
    /\ loadedModels' = <<>>
    /\ lastRot' = NoRot
    /\ UNCHANGED <<camPos, camDir, camAim, savedView, mouseControls, lastFit>>

\* resetView: position and rotation copied from savedView, which init set
SceneResetView ==
    /\ Event("reset")
    /\ SetCamera(savedView)
    /\ lastRot' = NoRot
    /\ Tracked
    /\ UNCHANGED <<loadedModels, savedView, mouseControls, lastFit>>

(***************************************************************************)
(* Scene3D: touch handlers.  Pointer coordinates are whole pixels; the     *)
(* centre of two fingers is kept in half pixels (the sum of the two        *)
(* coordinates).  A touchstart brings one finger, two fingers are never    *)
(* at the same point, and the fingers of a hand share their vertical       *)
(* position, so that the pinch distance is a whole number of pixels.       *)
(***************************************************************************)
PinchZoomThreshold == 50    \* Math.abs(distanceDelta) > 0.5, distanceDelta 0.01 per pixel
RotateThreshold == 5        \* centerMovement > 5
TouchZoomPerPixel == 1      \* 0.01 per pixel, in 1/100

\* where a finger comes down (clientX), and the movements of one frame:
\* <<dx of the first finger, dx of the second finger, dy of all fingers>>
StartXs == {0, 100, 200}
Frames == {<<0, 50, 0>>, <<-5, 5, 0>>, <<40, 100, 0>>, <<-30, 30, 0>>, <<0, 0, 20>>}

\* event.touches after the fingers moved by a frame
MoveTouches(ts, f) ==
    [i \in 1..Len(ts) |->
        <<ts[i][1] + (IF i = 1 THEN f[1] ELSE IF i = 2 THEN f[2] ELSE 0),
          ts[i][2] + f[3]>>]

\* no two fingers at one point
Apart(ts) == \A i, j \in 1..Len(ts) : i # j => ts[i] # ts[j]

\* getMobileMode()
GetMobileMode(radio) == IF radio = "none" THEN "pan" ELSE radio

\* Math.sqrt(dx^2 + dy^2) of two touches
PinchDistance(t1, t2) ==
    ISqrt((t2[1] - t1[1]) * (t2[1] - t1[1]) + (t2[2] - t1[2]) * (t2[2] - t1[2]))

\* the centre of two touches, in half pixels
TwoFingerCenter(t1, t2) == <<t1[1] + t2[1], t1[2] + t2[2]>>

\* a value that is set and is not 0, as a JavaScript condition reads it
Truthy(v) == v # Null /\ v[1] # 0

\* a one-finger touchmove that reads the radio buttons again
TouchMoveModeLive(mc, radio) == GetMobileMode(radio)

\* the mode a one-finger touchmove applies: mouseControls.mobileMode || 'pan'
TouchMoveMode(mc, radio) == IF mc.mobileMode = Null THEN "pan" ELSE mc.mobileMode[1]

\* the one-finger branch of onTouchMove
SingleTouchCamera(cam, mode, deltaX, deltaY) ==
    CASE mode = "pan" -> PanCamera(cam, deltaX, deltaY)
      [] mode = "rotate" -> RotateCamera(cam, deltaX, deltaY)
      [] mode = "zoom" -> ZoomCamera(cam, (-deltaY) * TouchZoomPerPixel)
      [] OTHER -> cam

\* a zoom gate that lets through a distanceDelta of exactly 0.5
ZoomGateAtLeast(pinchChange) == Abs(pinchChange) >= PinchZoomThreshold

\* Math.abs(distanceDelta) > 0.5, for the change of the pinch distance in pixels
ZoomGate(pinchChange) == Abs(pinchChange) > PinchZoomThreshold

\* a rotation gate that takes the threshold for 50 px
RotateGateCoarse(cdx, cdy, pinchChange) ==
    /\ cdx * cdx + cdy * cdy > (20 * RotateThreshold) * (20 * RotateThreshold)
    /\ cdx * cdx + cdy * cdy > pinchChange * pinchChange

\* a rotation gate that lets through a midpoint movement equal to half the
\* change of the pinch distance
RotateGateLoose(cdx, cdy, pinchChange) ==
    /\ cdx * cdx + cdy * cdy > (2 * RotateThreshold) * (2 * RotateThreshold)
    /\ cdx * cdx + cdy * cdy >= pinchChange * pinchChange

\* centerMovement > 5 && centerMovement > distanceChange * 0.5, for the
\* movement of the centre in half pixels (cdx, cdy)
RotateGate(cdx, cdy, pinchChange) ==
    /\ cdx * cdx + cdy * cdy > (2 * RotateThreshold) * (2 * RotateThreshold)
    /\ cdx * cdx + cdy * cdy > pinchChange * pinchChange

\* a two-finger branch that rotates only in a frame that did not zoom
TwoFingerFrameExclusive(cam, mc, t1, t2) ==
    LET pinchChange == PinchDistance(t1, t2) - mc.lastPinchDistance[1]
        center == TwoFingerCenter(t1, t2)
        cdx == center[1] - mc.lastTwoFingerCenter[1][1]
        cdy == center[2] - mc.lastTwoFingerCenter[1][2]
        zoom == ZoomGate(pinchChange)
        rotate == ~zoom /\ RotateGate(cdx, cdy, pinchChange)
    IN [zoom |-> zoom, rotate |-> rotate, pinchChange |-> pinchChange,
        centerMove |-> <<cdx, cdy>>,
        cam |-> IF zoom THEN ZoomCamera(cam, pinchChange * TouchZoomPerPixel)
                ELSE IF rotate THEN RotateCamera(cam, RoundDiv(cdx, 2), RoundDiv(cdy, 2))
                ELSE cam]

\* the two-finger branch of onTouchMove with lastPinchDistance and
\* lastTwoFingerCenter set: what it applies and the camera it leaves
TwoFingerFrame(cam, mc, t1, t2) ==
    LET pinchChange == PinchDistance(t1, t2) - mc.lastPinchDistance[1]
        center == TwoFingerCenter(t1, t2)
        cdx == center[1] - mc.lastTwoFingerCenter[1][1]
        cdy == center[2] - mc.lastTwoFingerCenter[1][2]
        zoom == ZoomGate(pinchChange)
        rotate == RotateGate(cdx, cdy, pinchChange)
        zoomed == IF zoom THEN ZoomCamera(cam, pinchChange * TouchZoomPerPixel) ELSE cam
    IN [zoom |-> zoom, rotate |-> rotate, pinchChange |-> pinchChange,
        centerMove |-> <<cdx, cdy>>,
        cam |-> IF rotate
                THEN RotateCamera(zoomed, RoundDiv(cdx, 2), RoundDiv(cdy, 2))
                ELSE zoomed]

\* history kept with every touch event and every change of the radio
TouchEvent(op) ==
    /\ steps < MaxTouchSteps
    /\ steps' = steps + 1
    /\ lastOp' = op
    /\ before' = [pos |-> camPos, aim |-> camAim]
    /\ lastRot' = NoRot
    /\ UNCHANGED <<loadedModels, savedView, lastFit, dragHist, panTarget>>
    /\ UNCHANGED <<viewerVars, loaderVars, appVars>>

\* the sequence without its i-th element
Without(ts, i) == [j \in 1..(Len(ts) - 1) |-> IF j < i THEN ts[j] ELSE ts[j + 1]]

\* the user checks another mobileMode radio button
SelectMobileMode ==
    \E m \in MobileModes :
        /\ m # checkedRadio
        /\ TouchEvent("select")
        /\ checkedRadio' = m
        /\ UNCHANGED <<camPos, camDir, camAim, mouseControls, touches, touchHist>>

\* onTouchStart: a finger comes down
OnTouchStart ==
    \E x \in StartXs :
        LET y == IF touches = <<>> THEN 0 ELSE touches[1][2]
            ts == Append(touches, <<x, y>>)
        IN /\ Len(touches) < MaxTouches
           /\ Apart(ts)
           /\ TouchEvent("touchstart")
           /\ touches' = ts
           /\ mouseControls' =
                IF Len(ts) = 1
                THEN [mouseControls EXCEPT !.isMouseDown = TRUE,
                                           !.lastPosition = ts[1],
                                           !.mobileMode = <<GetMobileMode(checkedRadio)>>]
                ELSE IF Len(ts) = 2
                THEN [mouseControls EXCEPT
                        !.isMouseDown = FALSE,
                        !.lastPinchDistance = <<PinchDistance(ts[1], ts[2])>>,
                        !.lastTwoFingerCenter = <<TwoFingerCenter(ts[1], ts[2])>>]
                ELSE mouseControls
           /\ touchHist' =
                [touchHist EXCEPT
                   !.contact = IF Len(ts) = 2 THEN @ + 1 ELSE @,
                   !.baseline = IF Len(ts) = 2 THEN touchHist.contact + 1 ELSE @,
                   !.gestureMode = IF Len(ts) = 1 THEN checkedRadio ELSE @]
           /\ UNCHANGED <<camPos, camDir, camAim, checkedRadio>>

\* onTouchMove: the fingers move
OnTouchMove ==
    \E f \in Frames :
        LET ts == MoveTouches(touches, f)
            mc == mouseControls
        IN /\ touches # <<>>
           /\ ts # touches
           /\ Apart(ts)
           /\ TouchEvent("touchmove")
           /\ touches' = ts
           /\ IF Len(ts) = 1 /\ mc.isMouseDown
              THEN LET mode == TouchMoveMode(mc, checkedRadio)
                       deltaX == ts[1][1] - mc.lastPosition[1]
                       deltaY == ts[1][2] - mc.lastPosition[2]
                   IN /\ SetCamera(SingleTouchCamera(camera, mode, deltaX, deltaY))
                      /\ mouseControls' = [mc EXCEPT !.lastPosition = ts[1]]
                      /\ touchHist' = [touchHist EXCEPT !.frame =
                            [fingers |-> 1, mode |-> mode, delta |-> <<deltaX, deltaY>>]]
              ELSE IF Len(ts) = 2
              THEN LET based == Truthy(mc.lastPinchDistance) /\ mc.lastTwoFingerCenter # Null
                       fr == IF based THEN TwoFingerFrame(camera, mc, ts[1], ts[2])
                             ELSE [zoom |-> FALSE, rotate |-> FALSE, cam |-> camera]
                   IN /\ SetCamera(fr.cam)
                      /\ mouseControls' =
                           [mc EXCEPT
                              !.lastPinchDistance = <<PinchDistance(ts[1], ts[2])>>,
                              !.lastTwoFingerCenter = <<TwoFingerCenter(ts[1], ts[2])>>]
                      /\ touchHist' = [touchHist EXCEPT
                            !.baseline = touchHist.contact,
                            !.frame = [fingers |-> 2, zoom |-> fr.zoom, rotate |-> fr.rotate,
                                       based |-> based, baseline |-> touchHist.baseline,
                                       pinchFrom |-> mc.lastPinchDistance,
                                       centerFrom |-> mc.lastTwoFingerCenter, to |-> ts]]
              ELSE /\ UNCHANGED <<camPos, camDir, camAim, mouseControls>>
                   /\ touchHist' = [touchHist EXCEPT !.frame = [fingers |-> Len(ts), mode |-> "none"]]
           /\ UNCHANGED checkedRadio

\* onTouchEnd: a finger is lifted
OnTouchEnd ==
    \E i \in 1..Len(touches) :
        LET ts == Without(touches, i)
        IN /\ TouchEvent("touchend")
           /\ touches' = ts
           /\ mouseControls' =
                IF Len(ts) = 0
                THEN [mouseControls EXCEPT !.isMouseDown = FALSE,
                                           !.lastPinchDistance = Null,
                                           !.lastTwoFingerCenter = Null]
                ELSE [mouseControls EXCEPT !.isMouseDown = FALSE]
           /\ touchHist' = [touchHist EXCEPT !.contact = IF Len(ts) = 2 THEN @ + 1 ELSE @]
           /\ UNCHANGED <<camPos, camDir, camAim, checkedRadio>>

(***************************************************************************)
(* The single-model viewer (src/viewer3d_standalone.js).                   *)
(***************************************************************************)
ViewerInitialZ == 500       \* camera.position.set(0, 0, 5)
RotationSpeed == 5          \* controls.rotationSpeed 0.005 rad: 5 mrad per pixel
PanSpeed == 3               \* controls.panSpeed 0.003: 3/1000 per pixel
WheelStep == 20             \* controls.zoomSpeed * 2 = 0.2
MinZoom == 10               \* controls.minZoom 0.1
MaxZoom == 5000             \* controls.maxZoom 50
MinFitDistance == 100       \* autoFitModel: Math.max(..., 1)
MinFinalDistance == 500     \* autoFitModel: Math.max(distance * 2, 5)
FinalMargin == 2            \* autoFitModel: distance * 2

\* The files a user can select: extension and what parsing the content
\* gives (a geometry box in the model's own frame, or a parse error).
ViewerFiles == {"cube.glb", "small.obj", "huge.stl", "empty.obj", "bad.obj", "notes.txt"}
FileSupported(f) == f # "notes.txt"
FileParses(f) == f # "bad.obj"
FileBox(f) ==
    CASE f = "cube.glb" -> Box(Vec(-100, -100, -100), Vec(100, 100, 100))
      [] f = "small.obj" -> Box(Vec(290, -10, 40), Vec(310, 10, 60))
      [] f = "huge.stl" -> Box(Vec(-2000, -2000, -2000), Vec(2000, 2000, 2000))
      [] f = "empty.obj" -> EmptyBox

NoModel == [obj |-> 0]

\* Box3.setFromObject(currentModel): the geometry box moved by the position
WorldBox(model) ==
    IF model.box.empty THEN EmptyBox
    ELSE Box(VAdd(model.box.min, model.position), VAdd(model.box.max, model.position))

\* autoFitModel: the size used, a zero size replaced by (1, 1, 1)
FitSize(size) == IF size = Zero3 THEN Vec(100, 100, 100) ELSE size

\* autoFitModel: distance = Math.max(maxDimension / (2 * Math.tan(fov / 2)), 1)
FitDistance(maxDimension) ==
    Max2(RoundDiv(maxDimension * 1000, 2 * TanHalfFov(CameraFov)), MinFitDistance)

\* autoFitModel: finalDistance = Math.max(distance * 2, 5)
FinalDistance(maxDimension) ==
    Max2(FitDistance(maxDimension) * FinalMargin, MinFinalDistance)

\* autoFitModel for a current model; an empty box is computed once more
\* after updateMatrixWorld(true)
AutoFit(model) ==
    LET first == WorldBox(model)
        box == IF first.empty THEN WorldBox(model) ELSE first
        center == GetCenter(box)
        size == FitSize(GetSize(box))
        finalDistance == FinalDistance(MaxDim(size))
    IN [size |-> size, center |-> center, finalDistance |-> finalDistance,
        model |-> [model EXCEPT !.position = VSub(model.position, center)],
        pos |-> Vec(0, 0, finalDistance),
        empty |-> box.empty, computations |-> IF first.empty THEN 2 ELSE 1]

\* the distance clamp of handleMouseWheel
ViewerClamp(pos) ==
    IF LengthSq(pos) < MinZoom * MinZoom THEN SetLength(pos, MinZoom)
    ELSE IF LengthSq(pos) > MaxZoom * MaxZoom THEN SetLength(pos, MaxZoom)
         ELSE pos

VHandled(op) ==
    /\ vSteps < MaxViewerSteps
    /\ vSteps' = vSteps + 1
    /\ vLastOp' = op
    /\ UNCHANGED <<sceneVars, loaderVars, appVars>>

\* an event that starts and ends no test cube timer
VEvent(op) == VHandled(op) /\ UNCHANGED <<autoCube, testCubeTimer>>

\* the rotations of the objects left in the scene
Restrict(rotation, objs) == [o \in objs |-> rotation[o]]

\* Object3D.rotation of one object set
SetRotation(rotation, obj, rot) ==
    [o \in DOMAIN rotation |-> IF o = obj THEN rot ELSE rotation[o]]

\* scene.add of a new object
SceneAdd(rotation, obj) ==
    [o \in DOMAIN rotation \cup {obj} |-> IF o = obj THEN <<0, 0>> ELSE rotation[o]]

\* initializeScene and initializeControls
ViewerInit ==
    /\ vCamPos = Vec(0, 0, ViewerInitialZ)
    /\ vCamDir = Vec(0, 0, -1000)
    /\ currentModel = NoModel
    /\ sceneObjs = {}
    /\ objRotation = <<>>
    /\ autoCube = TRUE
    /\ testCubeTimer = 0
    /\ controls = [isRotating |-> FALSE, isPanning |-> FALSE,
                   previousMouse |-> <<0, 0>>,
                   initialCameraPosition |-> Vec(0, 0, ViewerInitialZ)]
    /\ loaderShown = FALSE
    /\ pending = <<>>
    /\ nextObj = 1
    /\ vLastOp = "init"
    /\ vLastFit = NoFit
    /\ vSteps = 0

\* handleFileSelect and loadModel up to the start of the read
HandleFileSelect ==
    \E f \in ViewerFiles :
        /\ Len(pending) < MaxPending
        /\ VEvent("select")
        /\ sceneObjs' = sceneObjs \ {currentModel.obj}
        /\ objRotation' = Restrict(objRotation, sceneObjs')
        /\ IF FileSupported(f)
           THEN /\ loaderShown' = TRUE
                /\ pending' = Append(pending, f)
           ELSE /\ loaderShown' = FALSE
                /\ pending' = pending
        /\ UNCHANGED <<vCamPos, vCamDir, currentModel, controls, nextObj, vLastFit>>

RemoveAt(q, i) == SubSeq(q, 1, i - 1) \o SubSeq(q, i + 1, Len(q))

\* reader.onload / the loader's onLoad of a read in flight: parse, add to
\* the scene, setupModel (autoFitModel), hideLoader; a parse error shows
\* the error and hides the loader
HandleLoad ==
    \E i \in 1..Len(pending) :
        LET f == pending[i]
        IN /\ pending' = RemoveAt(pending, i)
           /\ loaderShown' = FALSE
           /\ IF FileParses(f)
              THEN LET fit == AutoFit([obj |-> nextObj, position |-> Zero3,
                                       box |-> FileBox(f), rot |-> <<0, 0>>])
                   IN /\ VEvent("fit")
                      /\ currentModel' = fit.model
                      /\ sceneObjs' = sceneObjs \cup {nextObj}
                      /\ objRotation' = SceneAdd(objRotation, nextObj)
                      /\ nextObj' = nextObj + 1
                      /\ vCamPos' = fit.pos
                      /\ vCamDir' = LookDir(fit.pos, Zero3)
                      /\ controls' = [controls EXCEPT !.initialCameraPosition = fit.pos]
                      /\ vLastFit' = [kind |-> "auto", size |-> fit.size,
                                      center |-> fit.center,
                                      finalDistance |-> fit.finalDistance,
                                      pos |-> fit.pos, empty |-> fit.empty,
                                      computations |-> fit.computations]
              ELSE /\ VEvent("parseError")
                   /\ UNCHANGED <<vCamPos, vCamDir, currentModel, sceneObjs,
                                  objRotation, controls, nextObj, vLastFit>>

\* reader.onerror of a read in flight
HandleReadError ==
    \E i \in 1..Len(pending) :
        /\ VEvent("readError")
        /\ pending' = RemoveAt(pending, i)
        /\ loaderShown' = FALSE
        /\ UNCHANGED <<vCamPos, vCamDir, currentModel, sceneObjs, objRotation,
                       controls, nextObj, vLastFit>>

\* a move handler that also overwrites the stored reset position
TrackPointerAsView(c, p) ==
    [c EXCEPT !.previousMouse = p,
              !.initialCameraPosition = Vec(p[1], p[2], @.z)]

\* handleMouseMove: the pointer position kept for the next event
TrackPointer(c, p) == [c EXCEPT !.previousMouse = p]

\* handleMouseDown
HandleMouseDown ==
    \E button \in Buttons, p \in Points :
        /\ VEvent("down")
        /\ controls' = [controls EXCEPT
                          !.previousMouse = p,
                          !.isPanning = IF button = 0 THEN TRUE ELSE @,
                          !.isRotating = IF button = 2 THEN TRUE ELSE @]
        /\ UNCHANGED <<vCamPos, vCamDir, currentModel, sceneObjs, objRotation, loaderShown,
                       pending, nextObj, vLastFit>>

\* handleMouseMove; with neither flag set the handler returns at once
HandleMouseMove ==
    \E p \in Points :
        LET deltaX == p[1] - controls.previousMouse[1]
            deltaY == p[2] - controls.previousMouse[2]
        IN /\ controls.isPanning \/ controls.isRotating
           /\ IF controls.isRotating /\ currentModel # NoModel
              THEN /\ VEvent("rotate")
                   /\ currentModel' = [currentModel EXCEPT
                         !.rot = <<@[1] + deltaY * RotationSpeed,
                                   @[2] + deltaX * RotationSpeed>>]
                   /\ objRotation' = SetRotation(objRotation, currentModel.obj,
                                                 currentModel'.rot)
                   /\ UNCHANGED vCamPos
              ELSE IF controls.isPanning
                   THEN /\ VEvent("pan")
                        /\ vCamPos' = Vec(vCamPos.x - RoundDiv(deltaX * PanSpeed, 10),
                                          vCamPos.y + RoundDiv(deltaY * PanSpeed, 10),
                                          vCamPos.z)
                        /\ UNCHANGED <<currentModel, objRotation>>
                   ELSE /\ VEvent("move")
                        /\ UNCHANGED <<vCamPos, currentModel, objRotation>>
           /\ controls' = TrackPointer(controls, p)
           /\ UNCHANGED <<vCamDir, sceneObjs, loaderShown, pending, nextObj, vLastFit>>

\* handleMouseUp
HandleMouseUp ==
    /\ VEvent("up")
    /\ controls' = [controls EXCEPT !.isPanning = FALSE, !.isRotating = FALSE]
    /\ UNCHANGED <<vCamPos, vCamDir, currentModel, sceneObjs, objRotation, loaderShown,
                   pending, nextObj, vLastFit>>

\* delta = event.deltaY > 0 ? 1 : -1
WheelDirections == {-1, 1}

\* handleMouseWheel: one step of 0.2 along the view direction, then the clamp
WheelZoom(pos, dir, delta) ==
    ViewerClamp(VAdd(pos, Vec(RoundDiv(dir.x * delta * WheelStep, 1000),
                              RoundDiv(dir.y * delta * WheelStep, 1000),
                              RoundDiv(dir.z * delta * WheelStep, 1000))))

\* handleMouseWheel
HandleMouseWheel ==
    \E delta \in WheelDirections :
        /\ VEvent("zoom")
        /\ vCamPos' = WheelZoom(vCamPos, vCamDir, delta)
        /\ UNCHANGED <<vCamDir, currentModel, sceneObjs, objRotation, controls, loaderShown,
                       pending, nextObj, vLastFit>>

\* resetView
ViewerResetView ==
    /\ VEvent("reset")
    /\ vCamPos' = controls.initialCameraPosition
    /\ vCamDir' = LookDir(controls.initialCameraPosition, Zero3)
    /\ currentModel' = IF currentModel # NoModel
                       THEN [currentModel EXCEPT !.rot = <<0, 0>>]
                       ELSE currentModel
    /\ objRotation' = SetRotation(objRotation, currentModel.obj, <<0, 0>>)
    /\ UNCHANGED <<sceneObjs, controls, loaderShown, pending, nextObj, vLastFit>>

\* the 2 x 2 x 2 cube of addTestCube, at the origin
TestCubeBox == Box(Vec(-100, -100, -100), Vec(100, 100, 100))

\* addTestCube(permanent): the current model leaves the scene, a new cube
\* becomes the current model; no auto-fit. A cube that is not permanent
\* starts its removal timer.
AddTestCube(permanent) ==
    /\ currentModel' = [obj |-> nextObj, position |-> Zero3, box |-> TestCubeBox,
                        rot |-> <<0, 0>>]
    /\ sceneObjs' = (sceneObjs \ {currentModel.obj}) \cup {nextObj}
    /\ objRotation' = SceneAdd(Restrict(objRotation, sceneObjs \ {currentModel.obj}),
                               nextObj)
    /\ nextObj' = nextObj + 1
    /\ testCubeTimer' = IF permanent THEN testCubeTimer ELSE nextObj
    /\ UNCHANGED <<vCamPos, vCamDir, controls, loaderShown, pending, vLastFit>>

\* the timer set by initialization: addTestCube()
AutoTestCube ==
    /\ autoCube
    /\ VHandled("autoCube")
    /\ autoCube' = FALSE
    /\ AddTestCube(FALSE)

\* a click on the test button: addTestCube(true)
TestButtonClick ==
    /\ VHandled("testCube")
    /\ UNCHANGED autoCube
    /\ AddTestCube(TRUE)

\* the test of the timer callback: currentModel === testCube
CubeStillCurrent(model, cube) == model.obj = cube

\* the removal timer of a test cube: the cube goes only while it is still
\* the current model
TestCubeTimeout ==
    /\ testCubeTimer # 0
    /\ VHandled("cubeTimeout")
    /\ testCubeTimer' = 0
    /\ IF CubeStillCurrent(currentModel, testCubeTimer)
       THEN /\ sceneObjs' = sceneObjs \ {testCubeTimer}
            /\ objRotation' = Restrict(objRotation, sceneObjs')
            /\ currentModel' = NoModel
       ELSE UNCHANGED <<sceneObjs, objRotation, currentModel>>
    /\ UNCHANGED <<autoCube, vCamPos, vCamDir, controls, loaderShown, pending,
                   nextObj, vLastFit>>

(***************************************************************************)
(* ModelLoader (src/js/modelloader.js).  A file is its base name, its      *)
(* extension and its size in MB; a loadFiles call is the closure of        *)
(* processFileGroups together with the callbacks it has invoked.           *)
(***************************************************************************)
\* AppConfig.files.supportedFormats
ModelFormats == {".obj", ".stl", ".gltf", ".glb"}
MaterialFormats == {".mtl"}
TextureFormats == {".jpg", ".jpeg", ".png", ".bmp", ".tga"}
AnimationFormats == {".txt", ".csv"}

\* AppConfig.files.maxSizes, in MB
MaxModelMB == 50
MaxTextureMB == 10

File(base, ext, mb) == [base |-> base, ext |-> ext, mb |-> mb]

\* the file lists handed to loadFiles
Selections ==
    { <<>>,
      <<File("notes", ".txt", 1)>>,
      <<File("c", ".glb", 10)>>,
      <<File("a", ".obj", 10), File("a", ".mtl", 1)>>,
      <<File("a", ".png", 10), File("a", ".obj", 50), File("a", ".jpg", 5),
        File("a", ".mtl", 1)>>,
      <<File("b", ".stl", 20), File("d", ".obj", 10)>>,
      <<File("a", ".obj", 51)>>,
      <<File("a", ".obj", 10), File("a", ".mtl", 51)>>,
      <<File("a", ".obj", 10), File("a", ".png", 11)>> }

\* an organizeFiles that lists the models last first
OrganizeFilesReversed(files) ==
    [models |-> LET m == SelectSeq(files, LAMBDA f : f.ext \in ModelFormats)
                IN [k \in 1..Len(m) |-> m[Len(m) + 1 - k]],
     materials |-> SelectSeq(files, LAMBDA f : f.ext \in MaterialFormats),
     textures |-> SelectSeq(files, LAMBDA f : f.ext \in TextureFormats),
     animations |-> SelectSeq(files, LAMBDA f : f.ext \in AnimationFormats)]

\* organizeFiles: the files by type, in selection order
OrganizeFiles(files) ==
    [models |-> SelectSeq(files, LAMBDA f : f.ext \in ModelFormats),
     materials |-> SelectSeq(files, LAMBDA f : f.ext \in MaterialFormats),
     textures |-> SelectSeq(files, LAMBDA f : f.ext \in TextureFormats),
     animations |-> SelectSeq(files, LAMBDA f : f.ext \in AnimationFormats)]

\* validateFiles: the size limit of one file
MaxSize(f) == IF f.ext \in TextureFormats THEN MaxTextureMB ELSE MaxModelMB

\* validateFiles
ValidateFiles(groups) ==
    LET allFiles == groups.models \o groups.materials \o groups.textures
    IN [valid |-> /\ Len(groups.models) # 0
                  /\ \A k \in 1..Len(allFiles) : ~(allFiles[k].mb > MaxSize(allFiles[k]))]

\* processFileGroups: the material file with the base name of the model
AssociatedMaterial(groups, baseName) ==
    LET found == SelectSeq(groups.materials, LAMBDA f : f.base = baseName)
    IN IF found = <<>> THEN Null ELSE <<found[1]>>

\* processFileGroups: the texture files with the base name of the model
AssociatedTextures(groups, baseName) ==
    SelectSeq(groups.textures, LAMBDA f : f.base = baseName)

\* the closure of one loadFiles call before processFileGroups has run
NewCall(files) ==
    [files |-> files, groups |-> OrganizeFiles(files),
     totalSteps |-> Len(OrganizeFiles(files).models), currentStep |-> 0,
     loadedModels |-> <<>>, phase |-> "called", parser |-> "none",
     materialFile |-> Null, textureFiles |-> <<>>, texLeft |-> {}, loaded |-> 0,
     onError |-> 0, onComplete |-> 0, completed |-> <<>>, onProgress |-> <<>>,
     started |-> <<>>]

\* loadOBJModel / loadMTLMaterials: a loader not yet created is created
\* when its script has been loaded by now
CheckLoaders(ld, c, objAvailable, mtlAvailable) ==
    IF c.currentStep >= Len(c.groups.models) THEN ld
    ELSE LET f == c.groups.models[c.currentStep + 1]
             obj == ld.obj \/ (f.ext = ".obj" /\ objAvailable)
             mtl == ld.mtl \/ (/\ f.ext = ".obj"
                               /\ obj
                               /\ AssociatedMaterial(c.groups, f.base) # Null
                               /\ mtlAvailable)
         IN [obj |-> obj, mtl |-> mtl]

\* loadSingleModel for the model at currentStep, after onProgress: which
\* read it starts.  ModelLoader has no method loadGLTFModel, so the call for
\* a .gltf or .glb file throws.
LoadSingleModel(c, ld) ==
    LET f == c.groups.models[c.currentStep + 1]
        mat == AssociatedMaterial(c.groups, f.base)
        c1 == [c EXCEPT !.onProgress = Append(@, <<c.currentStep, c.totalSteps>>),
                        !.started = Append(@, f),
                        !.materialFile = mat,
                        !.textureFiles = AssociatedTextures(c.groups, f.base)]
    IN IF f.ext = ".obj"
       THEN IF ~ld.obj
            THEN [c1 EXCEPT !.phase = "readModel", !.parser = "simple"]
            ELSE IF mat # Null /\ ld.mtl
                 THEN [c1 EXCEPT !.phase = "readMTL", !.parser = "OBJLoader"]
                 ELSE [c1 EXCEPT !.phase = "readModel", !.parser = "OBJLoader"]
       ELSE IF f.ext = ".stl"
            THEN [c1 EXCEPT !.phase = "readModel", !.parser = "STL"]
            ELSE IF f.ext \in {".gltf", ".glb"}
                 THEN [c1 EXCEPT !.phase = "thrown"]
                 ELSE [c1 EXCEPT !.phase = "failed", !.onError = @ + 1]

\* loadNextModel: onComplete once every model is loaded, else the next one
LoadNextModel(c, ld) ==
    IF c.currentStep >= Len(c.groups.models)
    THEN [c EXCEPT !.phase = "done", !.onComplete = @ + 1,
                   !.completed = c.loadedModels]
    ELSE LoadSingleModel(c, ld)

\* the success callback of loadSingleModel: the model is pushed and the
\* next one is due after the pause
ModelLoaded(c, materials) ==
    [c EXCEPT !.loadedModels = Append(@, [file |-> c.groups.models[c.currentStep + 1],
                                           materials |-> materials]),
              !.currentStep = @ + 1,
              !.phase = "pause"]

\* history kept with every step of the loader
LoaderStep(op, i) ==
    /\ loaderLast' = [op |-> op, call |-> i]
    /\ UNCHANGED <<sceneVars, viewerVars, appVars>>

\* the callbacks UI.onModelsSelected hands to loadFiles, for what call i
\* has invoked in this step: onModelLoadComplete hides the loader and adds
\* every model to Scene3D, onModelLoadError hides the loader; shown is the
\* state of the loader otherwise
UICallbacks(i, shown) ==
    LET old == IF i <= Len(calls) THEN calls[i] ELSE NewCall(<<>>)
        new == calls'[i]
    IN /\ uiLoaderShown' = IF \/ new.onComplete > old.onComplete
                              \/ new.onError > old.onError
                           THEN FALSE ELSE shown
       /\ sceneModels' = IF new.onComplete > old.onComplete
                         THEN sceneModels \o new.completed ELSE sceneModels
       /\ UNCHANGED currentPage

\* ModelLoader and UI before any loadFiles
LoaderInit ==
    /\ currentPage = "home"
    /\ uiLoaderShown = FALSE
    /\ sceneModels = <<>>
    /\ calls = <<>>
    /\ isLoading = FALSE
    /\ loaders = [obj |-> FALSE, mtl |-> FALSE]
    /\ objMaterials = Null
    /\ textureCache = {}
    /\ loaderLast = [op |-> "init", call |-> 0]

\* UI.onModelsSelected on the scenario page: showLoader, then
\* loadFiles(files, onProgress, onComplete, onError) up to its return:
\* organizeFiles, validateFiles, processFileGroups and the first
\* loadNextModel.  With an empty list onModelsSelected returns at once;
\* what loadFiles does with one is kept for a direct call.
LoadFiles ==
    \E files \in Selections, objAvailable, mtlAvailable \in BOOLEAN :
        /\ currentPage = "scenario"
        /\ Len(calls) < MaxCalls
        /\ LoaderStep("loadFiles", Len(calls) + 1)
        /\ IF Len(files) = 0
           THEN /\ calls' = Append(calls, [NewCall(files) EXCEPT !.phase = "rejected",
                                                               !.onError = 1])
                /\ UNCHANGED <<isLoading, loaders>>
           ELSE IF ~ValidateFiles(OrganizeFiles(files)).valid
                THEN /\ isLoading' = FALSE
                     /\ calls' = Append(calls, [NewCall(files) EXCEPT
                                                  !.phase = "rejected", !.onError = 1])
                     /\ UNCHANGED loaders
                ELSE LET ld == CheckLoaders(loaders, NewCall(files), objAvailable,
                                            mtlAvailable)
                     IN /\ isLoading' = TRUE
                        /\ calls' = Append(calls, LoadNextModel(NewCall(files), ld))
                        /\ loaders' = ld
        /\ UNCHANGED <<objMaterials, textureCache>>
        /\ IF Len(files) = 0 THEN UNCHANGED uiVars
           ELSE UICallbacks(Len(calls) + 1, TRUE)

\* loadMTLMaterials reader.onload: preloadTextures; without textures its
\* callback runs at once, inside the try: the MTL is parsed, setMaterials
\* and loadOBJGeometry follow, and a parse error is caught and answered
\* by loadOBJGeometry without materials
MTLReaderOnLoad ==
    \E i \in 1..Len(calls), parsed \in BOOLEAN :
        LET c == calls[i]
        IN /\ c.phase = "readMTL"
           /\ LoaderStep("mtlLoad", i)
           /\ IF c.textureFiles = <<>>
              THEN /\ calls' = [calls EXCEPT ![i] = [c EXCEPT !.phase = "readModel"]]
                   /\ objMaterials' = IF parsed THEN c.materialFile ELSE objMaterials
              ELSE /\ calls' = [calls EXCEPT ![i] =
                                  [c EXCEPT !.phase = "readTextures",
                                            !.texLeft = 1..Len(c.textureFiles),
                                            !.loaded = 0]]
                   /\ UNCHANGED objMaterials
           /\ UNCHANGED <<isLoading, loaders, textureCache>>
           /\ UICallbacks(i, uiLoaderShown)

\* loadMTLMaterials reader.onerror: loadOBJGeometry without materials
MTLReaderOnError ==
    \E i \in 1..Len(calls) :
        /\ calls[i].phase = "readMTL"
        /\ LoaderStep("mtlError", i)
        /\ calls' = [calls EXCEPT ![i].phase = "readModel"]
        /\ UNCHANGED <<isLoading, loaders, objMaterials, textureCache>>
        /\ UICallbacks(i, uiLoaderShown)

\* preloadTextures reader.onload of one texture; the last one runs the
\* callback of loadMTLMaterials, outside its try: an MTL parse error there
\* is caught by nobody
TextureReaderOnLoad ==
    \E i \in 1..Len(calls), parsed \in BOOLEAN :
        \E t \in calls[i].texLeft :
            LET c == calls[i]
                last == c.loaded + 1 = Len(c.textureFiles)
            IN /\ c.phase = "readTextures"
               /\ LoaderStep("textureLoad", i)
               /\ textureCache' = textureCache \cup {c.textureFiles[t]}
               /\ calls' = [calls EXCEPT ![i] =
                              [c EXCEPT !.texLeft = @ \ {t},
                                        !.loaded = @ + 1,
                                        !.phase = IF ~last THEN @
                                                  ELSE IF parsed THEN "readModel"
                                                       ELSE "uncaught"]]
               /\ objMaterials' = IF last /\ parsed THEN c.materialFile
                                  ELSE objMaterials
               /\ UNCHANGED <<isLoading, loaders>>
               /\ UICallbacks(i, uiLoaderShown)

\* the read of one texture fails: preloadTextures sets no onerror handler
TextureReaderFails ==
    \E i \in 1..Len(calls) :
        \E t \in calls[i].texLeft :
            /\ calls[i].phase = "readTextures"
            /\ LoaderStep("textureError", i)
            /\ calls' = [calls EXCEPT ![i].texLeft = @ \ {t}]
            /\ UNCHANGED <<isLoading, loaders, objMaterials, textureCache>>
            /\ UICallbacks(i, uiLoaderShown)

\* reader.onload of loadOBJGeometry, loadOBJWithoutMaterials or
\* loadSTLModel: parse and onSuccess, or onError on a parse error.  The
\* OBJLoader parses with the materials that are set in it at that moment.
ModelReaderOnLoad ==
    \E i \in 1..Len(calls), parsed \in BOOLEAN :
        LET c == calls[i]
        IN /\ c.phase = "readModel"
           /\ LoaderStep("modelLoad", i)
           /\ calls' = [calls EXCEPT ![i] =
                          IF parsed
                          THEN ModelLoaded(c, IF c.parser = "OBJLoader"
                                              THEN objMaterials ELSE Null)
                          ELSE [c EXCEPT !.phase = "failed", !.onError = @ + 1]]
           /\ UNCHANGED <<isLoading, loaders, objMaterials, textureCache>>
           /\ UICallbacks(i, uiLoaderShown)

\* reader.onerror of the model read
ModelReaderOnError ==
    \E i \in 1..Len(calls) :
        /\ calls[i].phase = "readModel"
        /\ LoaderStep("modelError", i)
        /\ calls' = [calls EXCEPT ![i] = [@ EXCEPT !.phase = "failed",
                                                   !.onError = @ + 1]]
        /\ UNCHANGED <<isLoading, loaders, objMaterials, textureCache>>
        /\ UICallbacks(i, uiLoaderShown)

\* the timer of the success callback: loadNextModel
NextModelTimer ==
    \E i \in 1..Len(calls), objAvailable, mtlAvailable \in BOOLEAN :
        LET c == calls[i]
            ld == CheckLoaders(loaders, c, objAvailable, mtlAvailable)
        IN /\ c.phase = "pause"
           /\ LoaderStep("nextModel", i)
           /\ calls' = [calls EXCEPT ![i] = LoadNextModel(c, ld)]
           /\ loaders' = ld
           /\ isLoading' = IF c.currentStep >= Len(c.groups.models) THEN FALSE
                           ELSE isLoading
           /\ UNCHANGED <<objMaterials, textureCache>>
           /\ UICallbacks(i, uiLoaderShown)

\* a click on the card of the manual mode: showPage('scenario')
ShowScenario ==
    /\ currentPage = "home"
    /\ currentPage' = "scenario"
    /\ loaderLast' = [op |-> "showScenario", call |-> 0]
    /\ UNCHANGED <<calls, isLoading, loaders, objMaterials, textureCache,
                   uiLoaderShown, sceneModels>>
    /\ UNCHANGED <<sceneVars, viewerVars, appVars>>

\* UI.goHome: Scene3D.clearAllModels and showPage('home')
GoHome ==
    /\ currentPage = "scenario"
    /\ currentPage' = "home"
    /\ sceneModels' = <<>>
    /\ loaderLast' = [op |-> "goHome", call |-> 0]
    /\ UNCHANGED <<calls, isLoading, loaders, objMaterials, textureCache,
                   uiLoaderShown>>
    /\ UNCHANGED <<sceneVars, viewerVars, appVars>>

(***************************************************************************)
(* App (src/unnamed/part_002): the start-up chain of App.init.  Each       *)
(* action is one link of the promise chain or one browser event.           *)
(***************************************************************************)
\* App.requiredModules
RequiredModules == {"AppConfig", "Scene3D", "ModelLoader", "UI"}

\* loadModules: the module each script defines, in loading order
ModuleScripts == <<"AppConfig", "Scene3D", "ModelLoader", "UI">>

\* initializeModuleSequence: the modules initialised, in order (the first
\* entry of the sequence is Promise.resolve())
InitSequence == <<"ModelLoader", "UI">>

\* how init() of a module can end: ModelLoader.init rethrows what it
\* catches; UI.init catches what its body throws and returns normally
InitOutcomes(m) ==
    IF m = "ModelLoader" THEN {"returned", "threw"}
    ELSE {"returned", "caughtInside"}

\* what initializeModule sees of an init() call: only a throw rejects
InitRejects(outcome) == outcome = "threw"

\* the global error events followed
MaxWindowErrors == 2

\* App.js loaded, before DOMContentLoaded
AppLoaded ==
    /\ appPc = "dom"
    /\ scriptsLoaded = 0
    /\ defined = {}
    /\ seqIndex = 1
    /\ initialized = FALSE
    /\ modules = {}
    /\ fatalShown = FALSE
    /\ dispatched = <<>>
    /\ initLog = <<>>
    /\ windowErrors = 0

\* a step of App leaves the scene, the viewer and the loader alone
AppStep == UNCHANGED <<sceneVars, viewerVars, loaderVars>>

\* onInitializationError: the fatal overlay and 'app:error'
OnInitializationError ==
    /\ appPc' = "failed"
    /\ fatalShown' = TRUE
    /\ dispatched' = Append(dispatched, "app:error")
    /\ UNCHANGED <<initialized, modules>>

\* App.init: checkBrowserCompatibility and loadExternalDependencies
AppInit ==
    \E compatible, three \in BOOLEAN :
        /\ appPc = "dom"
        /\ AppStep
        /\ IF compatible /\ three
           THEN /\ appPc' = "loading"
                /\ UNCHANGED <<initialized, modules, fatalShown, dispatched>>
           ELSE OnInitializationError
        /\ UNCHANGED <<scriptsLoaded, defined, seqIndex, initLog, windowErrors>>

\* loadModule script.onload: the script has run and has defined its module
\* or not; after the last script initializeModules runs
\* checkModulesAvailability
ModuleScriptLoaded ==
    \E defines \in BOOLEAN :
        /\ appPc = "loading"
        /\ AppStep
        /\ scriptsLoaded' = scriptsLoaded + 1
        /\ defined' = IF defines THEN defined \cup {ModuleScripts[scriptsLoaded']}
                      ELSE defined
        /\ IF scriptsLoaded' < Len(ModuleScripts)
           THEN UNCHANGED <<appPc, initialized, modules, fatalShown, dispatched>>
           ELSE IF RequiredModules \subseteq defined'
                THEN /\ appPc' = "sequence"
                     /\ UNCHANGED <<initialized, modules, fatalShown, dispatched>>
                ELSE OnInitializationError
        /\ UNCHANGED <<seqIndex, initLog, windowErrors>>

\* loadModule script.onerror: loadModules throws
ModuleScriptError ==
    /\ appPc = "loading"
    /\ AppStep
    /\ OnInitializationError
    /\ UNCHANGED <<scriptsLoaded, defined, seqIndex, initLog, windowErrors>>

\* executeSequence / initializeModule for the next module of the sequence
InitializeModule ==
    \E outcome \in InitOutcomes(InitSequence[seqIndex]) :
        LET m == InitSequence[seqIndex]
        IN /\ appPc = "sequence"
           /\ AppStep
           /\ initLog' = Append(initLog, [module |-> m, outcome |-> outcome])
           /\ IF InitRejects(outcome)
              THEN /\ OnInitializationError
                   /\ UNCHANGED seqIndex
              ELSE /\ modules' = modules \cup {m}
                   /\ appPc' = IF seqIndex = Len(InitSequence) THEN "sequenceDone"
                               ELSE "sequence"
                   /\ seqIndex' = IF seqIndex = Len(InitSequence) THEN seqIndex
                                  ELSE seqIndex + 1
                   /\ UNCHANGED <<initialized, fatalShown, dispatched>>
           /\ UNCHANGED <<scriptsLoaded, defined, windowErrors>>

\* onInitializationComplete
OnInitializationComplete ==
    /\ appPc = "sequenceDone"
    /\ AppStep
    /\ appPc' = "ready"
    /\ initialized' = TRUE
    /\ dispatched' = Append(dispatched, "app:initialized")
    /\ UNCHANGED <<scriptsLoaded, defined, seqIndex, modules, fatalShown, initLog,
                   windowErrors>>

\* the listener of the global 'error' event: the overlay while App is not
\* initialized
WindowError ==
    /\ windowErrors < MaxWindowErrors
    /\ AppStep
    /\ windowErrors' = windowErrors + 1
    /\ fatalShown' = IF ~initialized THEN TRUE ELSE fatalShown
    /\ UNCHANGED <<appPc, scriptsLoaded, defined, seqIndex, initialized, modules,
                   dispatched, initLog>>

(***************************************************************************)
(* Specifications.                                                         *)
(***************************************************************************)
Init == SceneInit /\ ViewerInit /\ LoaderInit /\ AppLoaded

SceneNext ==
    \/ OnMouseDown
    \/ OnMouseMove
    \/ OnMouseUp
    \/ OnMouseWheel
    \/ AddModel
    \/ ClearAllModels
    \/ SceneResetView

ViewerNext ==
    \/ HandleFileSelect
    \/ HandleLoad
    \/ HandleReadError
    \/ HandleMouseDown
    \/ HandleMouseMove
    \/ HandleMouseUp
    \/ HandleMouseWheel
    \/ ViewerResetView
    \/ AutoTestCube
    \/ TestButtonClick
    \/ TestCubeTimeout

\* Scene3D alone
SpecScene == Init /\ [][SceneNext]_vars

\* the single-model viewer alone
SpecViewer == Init /\ [][ViewerNext]_vars

\* Scene3D under touch input, with the release of a mouse button beside it
TouchNext ==
    \/ OnTouchStart
    \/ OnTouchMove
    \/ OnTouchEnd
    \/ SelectMobileMode
    \/ OnMouseUp

SpecTouch == Init /\ [][TouchNext]_vars

LoaderNext ==
    \/ ShowScenario
    \/ LoadFiles
    \/ MTLReaderOnLoad
    \/ MTLReaderOnError
    \/ TextureReaderOnLoad
    \/ TextureReaderFails
    \/ ModelReaderOnLoad
    \/ ModelReaderOnError
    \/ NextModelTimer

\* a read in flight ends and a timer set fires
LoaderProgress ==
    \/ MTLReaderOnLoad
    \/ MTLReaderOnError
    \/ TextureReaderOnLoad
    \/ TextureReaderFails
    \/ ModelReaderOnLoad
    \/ ModelReaderOnError
    \/ NextModelTimer

\* ModelLoader called from the scenario page of the UI
SpecLoader == Init /\ [][LoaderNext]_vars

\* ModelLoader with the browser delivering every reader event and timer
FairSpecLoader == SpecLoader /\ WF_vars(LoaderProgress)

UINext ==
    \/ ShowScenario
    \/ GoHome
    \/ LoadFiles
    \/ MTLReaderOnLoad
    \/ MTLReaderOnError
    \/ TextureReaderOnLoad
    \/ TextureReaderFails
    \/ ModelReaderOnLoad
    \/ ModelReaderOnError
    \/ NextModelTimer

\* the UI with its two pages over ModelLoader
SpecUI == Init /\ [][UINext]_vars

AppNext ==
    \/ AppInit
    \/ ModuleScriptLoaded
    \/ ModuleScriptError
    \/ InitializeModule
    \/ OnInitializationComplete
    \/ WindowError

\* the start-up of App
SpecApp == Init /\ [][AppNext]_vars

(***************************************************************************)
(* Claims.  Distances are compared within the resolution of the fixed      *)
(* point arithmetic: two steps of 1/100.                                   *)
(***************************************************************************)
WithinLimits(pos, lo, hi) ==
    /\ LengthSq(pos) >= (lo - 2) * (lo - 2)
    /\ LengthSq(pos) <= (hi + 2) * (hi + 2)

\* C1: after each zoom operation the camera's distance from the origin lies
\* in [minZoom, maxZoom] ([1, 10] in Scene3D.zoomCamera).
C1_ZoomWithinLimits ==
    lastOp = "zoom" => WithinLimits(camPos, ZoomMinDistance, ZoomMaxDistance)

\* What zoomCamera does keep: the distance is in the limits unless the
\* move put the camera on the origin, where normalize() leaves it.
ZoomWithinLimitsOffOrigin ==
    lastOp = "zoom" =>
        \/ WithinLimits(camPos, ZoomMinDistance, ZoomMaxDistance)
        \/ camPos = Zero3

\* C2: after an auto-fit, resetView() leaves the camera position equal to
\* the position the most recent auto-fit produced.
C2_ResetRestoresFit ==
    (lastOp = "reset" /\ lastFit # NoFit) => camPos = lastFit.pos

\* The single-model viewer does keep C2: autoFitModel records the position
\* resetView restores.
ViewerResetRestoresFit ==
    (vLastOp = "reset" /\ vLastFit # NoFit) => vCamPos = vLastFit.pos

\* What Scene3D.resetView restores: the view saved by init.
SceneResetRestoresInitialView ==
    lastOp = "reset" => camPos = InitialPosition

\* the sine of the polar angle of a position, x1000: its distance from the
\* vertical axis over its distance from the origin
SinPhiOf(pos) == RoundDiv(1000 * Length(Vec(pos.x, 0, pos.z)), Length(pos))

\* C3: after each orbit step the polar angle phi of the camera lies in
\* [0.1, pi - 0.1]: the angle rotateCamera sets the position from is in
\* the interval, and the position it leaves the camera at is off the
\* vertical axis by sin(0.1) = 0.0998 of its radius (here 0.08, the
\* resolution of a position in steps of 1/100 at a radius of 1 or more).
C3_PhiClamped ==
    lastOp = "rotate" =>
        /\ lastRot.phi >= PhiMin /\ lastRot.phi <= PhiMax
        /\ Length(camPos) >= 100 => SinPhiOf(camPos) >= 80

\* an orbit step whose polar angle the clamp cut to pi - 0.1
C3_Witness ==
    /\ lastOp = "rotate"
    /\ lastRot.phi = PhiMax
    /\ SetFromVector3(before.pos).phi + 200 > PhiMax

\* The error of a distance after the conversion to spherical coordinates
\* and back: 1/100 of the radius and two steps of 1/100.
OrbitTolerance(radius) == radius \div 100 + 2

\* C4: an orbit step never changes the distance between the camera and the
\* target it was aimed at before the step.
C4_OrbitKeepsTargetDistance ==
    lastOp = "rotate" =>
        Abs(Length(VSub(camPos, before.aim)) - Length(VSub(before.pos, before.aim)))
            <= OrbitTolerance(Length(before.pos))

\* What rotateCamera keeps is the distance from the origin.
OrbitKeepsOriginDistance ==
    lastOp = "rotate" =>
        Abs(Length(camPos) - Length(before.pos)) <= OrbitTolerance(Length(before.pos))

(***************************************************************************)
(* The framing the specification describes (section 4.2), for comparison   *)
(* with what the fit routines compute.                                     *)
(***************************************************************************)
\* distance := max(maxDim / (2 * tan(fovRad / 2)), 1)
SpecDistance(maxDim) ==
    Max2(RoundDiv(maxDim * 1000, 2 * TanHalfFov(CameraFov)), 100)

\* finalDistance := max(distance * marginFactor, minimumDistance), the
\* margin in tenths, minimumDistance 5
SpecFinalDistance(maxDim, margin) ==
    Max2(RoundDiv(SpecDistance(maxDim) * margin, 10), 500)

\* the size framed: a size of all zeros is replaced by (1, 1, 1)
SpecSize(size) == IF size = Zero3 THEN Vec(100, 100, 100) ELSE size

\* C5: for a bounding box whose largest dimension is greater than zero the
\* camera distance chosen by auto-fit is at least the minimum distance 5
\* and at least the pre-margin distance max(maxDim / (2 tan(fov/2)), 1).
C5_FitDistanceFloors ==
    (lastFit # NoFit /\ MaxDim(lastFit.size) > 0) =>
        /\ lastFit.cameraZ >= 500
        /\ lastFit.cameraZ >= SpecDistance(MaxDim(lastFit.size))

\* The single-model viewer's autoFitModel does keep C5.
ViewerFitDistanceFloors ==
    (vLastFit # NoFit /\ MaxDim(vLastFit.size) > 0) =>
        /\ vLastFit.finalDistance >= 500
        /\ vLastFit.finalDistance >= SpecDistance(MaxDim(vLastFit.size))

\* C6: auto-fit places the camera at finalDistance =
\* max(max(maxDim / (2 tan(fov/2)), 1) * marginFactor, 5) from the fitted
\* centre, marginFactor between 1.5 and 2.0; a box from (-1,-1,-1) to
\* (1,1,1) at 75 degrees yields a distance of 5.
C6_FitDistanceFormula ==
    lastFit # NoFit =>
        /\ \E margin \in 15..20 :
              lastFit.cameraZ = SpecFinalDistance(MaxDim(SpecSize(lastFit.size)), margin)
        /\ lastFit.pos = Vec(lastFit.center.x, lastFit.center.y,
                             lastFit.center.z + lastFit.cameraZ)
        /\ lastFit.size = Vec(200, 200, 200) => lastFit.cameraZ = 500

\* The single-model viewer's autoFitModel does compute C6's distance, with
\* the margin 2.0.
ViewerFitDistanceFormula ==
    vLastFit # NoFit =>
        /\ vLastFit.finalDistance = SpecFinalDistance(MaxDim(vLastFit.size), 20)
        /\ vLastFit.pos = Vec(0, 0, vLastFit.finalDistance)
        /\ vLastFit.size = Vec(200, 200, 200) => vLastFit.finalDistance = 500

\* the framing a fit routine gives a box of size (1, 1, 1) about a centre
UnitBoxFraming(kind, center) ==
    Framing(kind,
            Box(VSub(center, Vec(50, 50, 50)), VAdd(center, Vec(50, 50, 50))),
            IF kind = "single" THEN FitMargin ELSE FitAllMargin)

\* C7: auto-fit of a bounding box of size (0,0,0) yields the camera
\* distance and position of auto-fit of a box of size (1,1,1) with the
\* same centre, in every fit routine.
C7_ZeroSizeAsUnitBox ==
    (lastFit # NoFit /\ lastFit.size = Zero3) =>
        /\ lastFit.cameraZ = UnitBoxFraming(lastFit.kind, lastFit.center).cameraZ
        /\ lastFit.pos = UnitBoxFraming(lastFit.kind, lastFit.center).pos

\* fitModelToView alone keeps C7 at the field of view 75: both sizes give a
\* distance under the floor of 1.
SingleFitZeroSizeAsUnitBox ==
    (lastFit # NoFit /\ lastFit.kind = "single" /\ lastFit.size = Zero3) =>
        lastFit.pos = UnitBoxFraming("single", lastFit.center).pos

\* C8: immediately after any auto-fit the camera's distance as the zoom
\* handler measures it (from the origin) lies within the zoom limits.
C8_FitWithinZoomLimits ==
    lastOp = "fit" => WithinLimits(camPos, ZoomMinDistance, ZoomMaxDistance)

\* C8 for the single-model viewer: false as well, autoFitModel has no
\* upper limit.
ViewerFitWithinZoomLimits ==
    vLastOp = "fit" => WithinLimits(vCamPos, MinZoom, MaxZoom)

\* the smallest and the largest element of a non-empty set of integers
MinOf(S) == CHOOSE a \in S : \A b \in S : a <= b
MaxOf(S) == CHOOSE a \in S : \A b \in S : a >= b

\* the union bounding box of the models of a sequence: the extremes of the
\* boxes of the models that have geometry
UnionBox(models) ==
    LET boxes == {ModelBox(models[i]) : i \in 1..Len(models)}
        solid == {b \in boxes : ~b.empty}
    IN IF solid = {} THEN EmptyBox
       ELSE Box(Vec(MinOf({b.min.x : b \in solid}), MinOf({b.min.y : b \in solid}),
                    MinOf({b.min.z : b \in solid})),
                Vec(MaxOf({b.max.x : b \in solid}), MaxOf({b.max.y : b \in solid}),
                    MaxOf({b.max.z : b \in solid})))

\* C9: whenever two or more models are loaded the framing the last
\* addModel produced was computed over the union bounding box of exactly
\* the models in loadedModels; with exactly one model loaded it was
\* computed over that model alone.
C9_FramingOverLoadedModels ==
    /\ Len(loadedModels) >= 2 =>
          /\ lastFit.kind = "all"
          /\ lastFit.size = GetSize(UnionBox(loadedModels))
          /\ lastFit.center = GetCenter(UnionBox(loadedModels))
    /\ Len(loadedModels) = 1 =>
          /\ lastFit.kind = "single"
          /\ lastFit.size = GetSize(ModelBox(loadedModels[1]))
          /\ lastFit.center = GetCenter(ModelBox(loadedModels[1]))

\* two models loaded after a clear, framed over a union box that is not
\* the box of the model added last
C9_Witness ==
    /\ lastOp = "fit"
    /\ steps >= 4
    /\ Len(loadedModels) = 2
    /\ lastFit.size # GetSize(ModelBox(loadedModels[2]))
    /\ lastFit.center # GetCenter(ModelBox(loadedModels[2]))
    /\ camPos = lastFit.pos

\* C10: panning and rotating are never active at the same time.
C10_OneGestureMode == ~(controls.isPanning /\ controls.isRotating)

\* C11: a primary-button drag only pans the camera and a secondary-button
\* drag only orbits the camera: no drag step changes the displayed object's
\* rotation or position.
C11_DragMovesCameraOnly ==
    [][vLastOp' \in {"pan", "rotate"} => currentModel' = currentModel]_vars

\* The primary-button drag of the single-model viewer does leave the
\* object alone.
ViewerPanKeepsObject ==
    [][vLastOp' = "pan" => currentModel' = currentModel]_vars

\* a button-up, or a touch-end that left no finger on the canvas, was the
\* last event
Released == lastOp = "up" \/ (lastOp = "touchend" /\ touches = <<>>)

\* no drag and no gesture: no button or finger counted as down, no pinch
\* distance and no midpoint kept
Idle ==
    /\ ~mouseControls.isMouseDown
    /\ mouseControls.lastPinchDistance = Null
    /\ mouseControls.lastTwoFingerCenter = Null

\* C12: after a button-up, or a touch-end that leaves no finger, the state
\* is idle with the pinch distance and the midpoint cleared, and a
\* pointer-move or touch-move that follows without a new button-down or
\* touch-start leaves the camera pose unchanged.
C12_ReleaseIsIdle ==
    /\ [](Released => Idle)
    /\ [][(Released /\ lastOp' \in {"touchmove", "pan", "rotate", "move"})
            => <<camPos, camDir, camAim>>' = <<camPos, camDir, camAim>>]_vars

\* The touch-end that leaves no finger does leave Scene3D idle.
TouchEndToZeroIsIdle == (lastOp = "touchend" /\ touches = <<>>) => Idle

\* The button-up does end a drag: isMouseDown is false after it.
MouseUpEndsDrag == lastOp = "up" => ~mouseControls.isMouseDown

\* the last event was a two-finger touch-move that compared the fingers
\* with a stored pinch distance and midpoint
ComparedFrame ==
    lastOp = "touchmove" /\ touchHist.frame.fingers = 2 /\ touchHist.frame.based

\* Every two-finger touch-move compares the fingers with a pinch distance
\* and a midpoint stored during the same two-finger contact.
PinchBaselineFromSameContact ==
    ComparedFrame => touchHist.frame.baseline = touchHist.contact

\* C13: when the number of touches drops below two the stored
\* lastPinchDistance and lastTwoFingerCenter are discarded, and every later
\* two-finger touch-move computes its zoom and rotate deltas against a
\* baseline captured during that same two-finger contact, never against
\* values left from an earlier one.
C13_PinchBaselineFresh ==
    /\ (lastOp = "touchend" /\ Len(touches) < 2) =>
          /\ mouseControls.lastPinchDistance = Null
          /\ mouseControls.lastTwoFingerCenter = Null
    /\ ComparedFrame => touchHist.frame.baseline = touchHist.contact

\* What a compared two-finger frame measured, from the finger positions of
\* the frame and the stored values it read: the change of the pinch
\* distance in pixels, and four times the square of the midpoint's
\* movement in pixels.
FramePinchChange ==
    PinchDistance(touchHist.frame.to[1], touchHist.frame.to[2]) - touchHist.frame.pinchFrom[1]

FrameMidpointMoveSq4 ==
    LET fr == touchHist.frame
        mx == fr.to[1][1] + fr.to[2][1] - fr.centerFrom[1][1]
        my == fr.to[1][2] + fr.to[2][2] - fr.centerFrom[1][2]
    IN mx * mx + my * my

\* C14: in a two-finger touch-move frame a rotate delta is applied if and
\* only if the midpoint movement is strictly greater than 5 px and strictly
\* greater than 0.5 times the absolute change of the pinch distance; a
\* movement equal to half the change (25 against 50) applies no rotate.
C14_RotateGate ==
    ComparedFrame =>
        /\ touchHist.frame.rotate <=>
              (FrameMidpointMoveSq4 > 4 * 5 * 5
               /\ FrameMidpointMoveSq4 > FramePinchChange * FramePinchChange)
        /\ (FrameMidpointMoveSq4 = 4 * 25 * 25 /\ Abs(FramePinchChange) = 50)
              => (~touchHist.frame.rotate /\ camPos = before.pos)

\* the frame of the boundary: the midpoint moved 25 px while the pinch
\* distance grew by 50 px, and no rotate was applied
C14_Witness ==
    /\ ComparedFrame
    /\ FrameMidpointMoveSq4 = 4 * 25 * 25
    /\ FramePinchChange = 50
    /\ ~touchHist.frame.rotate

\* the camera is as far from the origin as before the last event, up to
\* the resolution of an orbit step
SameDistance ==
    Abs(Length(camPos) - Length(before.pos)) <= OrbitTolerance(Length(before.pos))

\* C15: in a two-finger touch-move frame a zoom delta is applied if and
\* only if |distanceDelta| = |pinchDistance - lastPinchDistance| * 0.01
\* exceeds 0.5; otherwise the frame leaves the camera distance unchanged.
C15_ZoomGate ==
    ComparedFrame =>
        /\ touchHist.frame.zoom <=> Abs(FramePinchChange) > 50
        /\ Abs(FramePinchChange) <= 50 => SameDistance

\* a frame whose pinch distance changed by 60 px: the zoom alone was
\* applied and moved the camera
C15_Witness ==
    /\ ComparedFrame
    /\ Abs(FramePinchChange) = 60
    /\ touchHist.frame.zoom /\ ~touchHist.frame.rotate
    /\ ~SameDistance

\* the frame touch1 (0,0) -> (0,0), touch2 (100,0) -> (150,0)
PinchFrom100To150 ==
    /\ ComparedFrame
    /\ touchHist.frame.pinchFrom = <<100>>
    /\ touchHist.frame.centerFrom = <<<<100, 0>>>>
    /\ touchHist.frame.to = <<<<0, 0>>, <<150, 0>>>>

\* C16: for the two-touch frame touch1 (0,0) -> (0,0), touch2 (100,0) ->
\* (150,0) a zoom delta is emitted and it is a zoom-out: the camera's
\* distance from the target increases.
C16_PinchOutZoomsOut ==
    PinchFrom100To150 =>
        (touchHist.frame.zoom /\ Length(camPos) > Length(before.pos))

\* A pinch that spreads the fingers by more than 50 px moves the camera
\* towards the target.
SpreadMovesCameraCloser ==
    (ComparedFrame /\ FramePinchChange > 50 /\ before.pos = InitialPosition) =>
        Length(camPos) < Length(before.pos)

\* the compared frame follows a frame or a touchstart of the same
\* two-finger contact
ConsecutiveFrames == ComparedFrame /\ touchHist.frame.baseline = touchHist.contact

\* C17: for two consecutive two-finger frames in which the pinch distance
\* is constant and the midpoint moves by 20 px, exactly a rotate delta is
\* applied and no zoom.
C17_MidpointMoveRotatesOnly ==
    (ConsecutiveFrames /\ FramePinchChange = 0 /\ FrameMidpointMoveSq4 = 4 * 20 * 20) =>
        /\ touchHist.frame.rotate /\ ~touchHist.frame.zoom
        /\ SameDistance

\* such a pair of frames, with the camera turned
C17_Witness ==
    /\ ConsecutiveFrames
    /\ FramePinchChange = 0 /\ FrameMidpointMoveSq4 = 4 * 20 * 20
    /\ touchHist.frame.rotate
    /\ camPos # before.pos

\* C18: for two consecutive two-finger frames in which the midpoint is
\* constant and the pinch distance changes by 10, exactly a zoom delta is
\* applied and no rotate.
C18_PinchChangeZoomsOnly ==
    (ConsecutiveFrames /\ Abs(FramePinchChange) = 10 /\ FrameMidpointMoveSq4 = 0) =>
        (touchHist.frame.zoom /\ ~touchHist.frame.rotate)

\* C19: zoom and rotate are gated independently in a two-finger frame:
\* each is applied whenever its own threshold condition holds, whatever
\* the other does, and there are frames in which both are applied.
C19_IndependentGates ==
    ComparedFrame =>
        /\ Abs(FramePinchChange) > 50 => touchHist.frame.zoom
        /\ (FrameMidpointMoveSq4 > 4 * 5 * 5
            /\ FrameMidpointMoveSq4 > FramePinchChange * FramePinchChange)
              => touchHist.frame.rotate

\* a frame in which both a zoom and a rotate were applied
C19_Witness ==
    /\ ComparedFrame
    /\ touchHist.frame.zoom /\ touchHist.frame.rotate
    /\ ~SameDistance
    /\ camPos.x # before.pos.x

\* the last event was a one-finger touch-move that acted on the camera
SingleFingerFrame ==
    /\ lastOp = "touchmove"
    /\ touchHist.frame.fingers = 1
    /\ touchHist.frame.mode # "none"

\* the mode selected when the gesture's finger came down; pan without a
\* selection
SelectedAtTouchStart ==
    IF touchHist.gestureMode = "none" THEN "pan" ELSE touchHist.gestureMode

\* C20: during a single-finger gesture every touch-move applies the mobile
\* mode that was selected at the gesture's touch-start, whatever is
\* selected while the finger is down; with no selection the mode is pan.
C20_ModeFixedAtTouchStart ==
    SingleFingerFrame =>
        /\ touchHist.frame.mode = SelectedAtTouchStart
        /\ camPos = SingleTouchCamera(Cam(before.pos, camDir, before.aim),
                                      SelectedAtTouchStart,
                                      touchHist.frame.delta[1],
                                      touchHist.frame.delta[2]).pos

\* a touch-move that moved the camera in the mode of its touch-start after
\* another mode was selected with the finger down
C20_Witness ==
    /\ SingleFingerFrame
    /\ checkedRadio # "none"
    /\ checkedRadio # SelectedAtTouchStart
    /\ touchHist.frame.mode = SelectedAtTouchStart
    /\ camPos # before.pos

\* a touch-move of a gesture begun with no mode selected: it panned
NoSelectionPans ==
    (SingleFingerFrame /\ touchHist.gestureMode = "none") =>
        touchHist.frame.mode = "pan"

\* the last event was a move of a drag with the primary or the secondary
\* button
DragMove == lastOp \in {"pan", "rotate"}

\* the delta the claim gives the last move: the pointer position minus the
\* position of the previous event of the drag
ClaimedDelta ==
    <<dragHist.pointer[1] - dragHist.prev[1], dragHist.pointer[2] - dragHist.prev[2]>>

\* C21: within one drag every pointer-move emits a delta equal to the
\* pointer position minus the position of the previous event of the drag
\* (the down event for the first move) and stores the pointer position, so
\* that the deltas of a drag sum to the final position minus the position
\* of the button-down.
C21_DragDeltas ==
    DragMove =>
        /\ camPos = (IF lastOp = "pan"
                     THEN PanCamera(Cam(before.pos, camDir, before.aim),
                                    ClaimedDelta[1], ClaimedDelta[2])
                     ELSE RotateCamera(Cam(before.pos, camDir, before.aim),
                                       ClaimedDelta[1], ClaimedDelta[2])).pos
        /\ mouseControls.lastPosition = dragHist.pointer
        /\ dragHist.sum = <<dragHist.pointer[1] - dragHist.down[1],
                            dragHist.pointer[2] - dragHist.down[2]>>

\* the second move of a drag, away from the position of the first
C21_Witness ==
    /\ DragMove
    /\ dragHist.prev # dragHist.down
    /\ dragHist.pointer # dragHist.prev
    /\ dragHist.pointer # dragHist.down
    /\ camPos # before.pos

\* the scene graph and the current model agree on the rotation of the
\* current model while it is in the scene
RotationBookkeeping ==
    /\ DOMAIN objRotation = sceneObjs
    /\ currentModel.obj \in sceneObjs => objRotation[currentModel.obj] = currentModel.rot

\* C22: after resetView, whatever came before it, every object displayed in
\* the viewer has the rotation (0, 0, 0) and the camera is back at the saved
\* view, looking at the origin, with or without a current model.
C22_ResetZeroesRotationRestoresCamera ==
    vLastOp = "reset" =>
        /\ \A o \in sceneObjs : objRotation[o] = <<0, 0>>
        /\ vCamPos = controls.initialCameraPosition
        /\ vCamDir = LookDir(controls.initialCameraPosition, Zero3)

\* resetView does restore the camera and zero the current model's rotation
ResetRestoresCameraZeroesCurrent ==
    vLastOp = "reset" =>
        /\ currentModel # NoModel => currentModel.rot = <<0, 0>>
        /\ vCamPos = controls.initialCameraPosition
        /\ vCamDir = LookDir(controls.initialCameraPosition, Zero3)

\* the position the last auto-fit stored, the initial one before any
FittedView == IF vLastFit = NoFit THEN Vec(0, 0, ViewerInitialZ) ELSE vLastFit.pos

\* C23: the stored reset position is the one the last auto-fit (or, before
\* any, initialisation) wrote: no pan, rotate, zoom, pointer or timer event
\* changes it, and every resetView puts the camera there, so that two
\* resets with gestures but no auto-fit between them restore the same
\* position.
C23_SavedViewOnlyFromAutoFit ==
    /\ controls.initialCameraPosition = FittedView
    /\ vLastOp = "reset" => vCamPos = FittedView

\* a pan after an auto-fit has moved the camera away from the stored view
C23_Witness ==
    /\ vLastOp = "pan"
    /\ vLastFit # NoFit
    /\ vCamPos # controls.initialCameraPosition
    /\ controls.initialCameraPosition = vLastFit.pos

\* Scene3D: savedView is the view init stored, whatever events follow
SceneSavedViewFixed ==
    savedView = Cam(InitialPosition, LookDir(InitialPosition, Zero3), Zero3)

\* C24: a pan moves the look-at target together with the camera: an orbit
\* after a pan aims the camera at the target displaced by the pan, not at
\* the target from before the pan.
C24_PanMovesTarget ==
    lastOp = "rotate" /\ panTarget.shift # Zero3 =>
        /\ camAim = VAdd(panTarget.base, panTarget.shift)
        /\ camDir = LookDir(camPos, VAdd(panTarget.base, panTarget.shift))

\* rotateCamera aims at the origin whatever pans came before
OrbitAimsAtOrigin ==
    lastOp = "rotate" => camAim = Zero3 /\ camDir = LookDir(camPos, Zero3)

\* C25: a wheel event with deltaY > 0 zooms out, the camera's distance
\* from the target (the origin) does not decrease; one with deltaY < 0
\* zooms in, the distance does not increase.
C25_WheelDirection ==
    [][\A delta \in WheelDirections :
          (vLastOp' = "zoom" /\ vSteps' = vSteps + 1
             /\ vCamPos' = WheelZoom(vCamPos, vCamDir, delta))
          => /\ delta > 0 => LengthSq(vCamPos') >= LengthSq(vCamPos)
             /\ delta < 0 => LengthSq(vCamPos') <= LengthSq(vCamPos)]_vars

\* Scene3D: the same for onMouseWheel and zoomCamera
SceneWheelDirection ==
    [][\A deltaY \in WheelDeltas :
          (lastOp' = "zoom" /\ steps' = steps + 1
             /\ camPos' = ZoomCamera(camera, deltaY \div WheelUnitsPerStep).pos)
          => /\ deltaY > 0 => DistSq(camPos', camAim) >= DistSq(camPos, camAim)
             /\ deltaY < 0 => DistSq(camPos', camAim) <= DistSq(camPos, camAim)]_vars

\* C26: auto-fit of an object without geometry does not fail: the empty
\* bounding box is computed a second time and no more, the zero size is
\* framed as a unit box, the camera ends at that framing's position and the
\* reset pose is the pose of the fit.
C26_AutoFitWithoutGeometry ==
    (lastOp = "fit" /\ lastFit.empty) =>
        /\ lastFit.computations = 2
        /\ camPos = UnitBoxFraming(lastFit.kind, lastFit.center).pos
        /\ savedView.pos = camPos

\* the single-model viewer's autoFitModel does all of it
ViewerAutoFitWithoutGeometry ==
    (vLastOp = "fit" /\ vLastFit.empty) =>
        /\ vLastFit.computations = 2
        /\ vLastFit.size = Vec(100, 100, 100)
        /\ vCamPos = Vec(0, 0, FinalDistance(100))
        /\ controls.initialCameraPosition = vCamPos

\* a model without geometry has been loaded into the viewer and fitted
ViewerFittedWithoutGeometry == vLastOp = "fit" /\ vLastFit.empty

\* Scene3D puts the camera at a finite place all the same: at the floor
\* distance from the centre (0, 0, 0) of the empty box
SceneFitWithoutGeometryAtFloor ==
    (lastOp = "fit" /\ lastFit.empty) => camPos = Vec(0, 0, FitMinDistance)

\* C27: loading a model replaces the one before it: whatever the order of
\* file selections, load completions and test cube events, the scene holds
\* at most one model object, and that one is the current model.
C27_OneModelInScene ==
    /\ Cardinality(sceneObjs) <= 1
    /\ \A o \in sceneObjs : o = currentModel.obj

\* a load completion does put the loaded model into the scene as the
\* current model
LoadedModelIsCurrent == vLastOp = "fit" => currentModel.obj \in sceneObjs

\* the selections the loader is to reject: no model file, a model or
\* material file of more than 50 MB, or a texture file of more than 10 MB
ToBeRejected(files) ==
    \/ \A k \in 1..Len(files) : files[k].ext \notin ModelFormats
    \/ \E k \in 1..Len(files) :
          \/ files[k].ext \in ModelFormats \cup MaterialFormats /\ files[k].mb > 50
          \/ files[k].ext \in TextureFormats /\ files[k].mb > 10

\* what a rejection is: one onError, no onComplete, no read started, and
\* isLoading false when loadFiles returns
RejectedCleanly(i) ==
    /\ calls[i].onError = 1
    /\ calls[i].onComplete = 0
    /\ calls[i].started = <<>>
    /\ loaderLast = [op |-> "loadFiles", call |-> i] => ~isLoading

NonEmptySelectionRejected ==
    \A i \in 1..Len(calls) :
        (ToBeRejected(calls[i].files) /\ calls[i].files # <<>>) => RejectedCleanly(i)

\* and a selection is read only if it is none of those
ReadOnlyIfValid ==
    \A i \in 1..Len(calls) : calls[i].started # <<>> => ~ToBeRejected(calls[i].files)

\* the terminal callbacks call i has invoked so far
Terminal(i) == calls[i].onError + calls[i].onComplete

\* C29: every loadFiles call ends with exactly one terminal callback,
\* onComplete once or onError once: never two, and in the end one, whatever
\* the files and whatever reads and parses fail.
C29_OneTerminalCallback ==
    \A i \in 1..MaxCalls :
        /\ [](Len(calls) >= i => Terminal(i) <= 1)
        /\ (Len(calls) >= i) ~> (Len(calls) >= i /\ Terminal(i) = 1)

\* no call invokes two terminal callbacks
AtMostOneTerminal == \A i \in 1..Len(calls) : Terminal(i) <= 1

\* the selection of call i needs neither loadGLTFModel nor preloadTextures
\* with textures to read
PlainSelection(i) ==
    /\ Len(calls) >= i
    /\ \A k \in 1..Len(calls[i].files) :
          calls[i].files[k].ext \notin {".gltf", ".glb"} \cup TextureFormats

\* a call without .gltf, .glb and texture files does end with one callback
PlainSelectionTerminates ==
    \A i \in 1..MaxCalls : PlainSelection(i) ~> (PlainSelection(i) /\ Terminal(i) = 1)

\* the model files of a selection, in selection order
SelectedModels(files) == SelectSeq(files, LAMBDA f : f.ext \in ModelFormats)

\* the fractions are in non-decreasing order
NonDecreasing(fractions) ==
    \A k \in 1..(Len(fractions) - 1) :
        fractions[k][1] * fractions[k + 1][2] <= fractions[k + 1][1] * fractions[k][2]

\* C30: processFileGroups loads the model files one at a time in selection
\* order: the k-th load started is that of the k-th model file selected and
\* starts only when the k - 1 before it have succeeded, the onProgress
\* fractions never decrease, and onComplete gets the loaded models in
\* selection order, one for every model file.
C30_ModelsLoadedInOrder ==
    \A i \in 1..Len(calls) :
        LET c == calls[i]
            selected == SelectedModels(c.files)
        IN /\ Len(c.started) <= Len(selected)
           /\ \A k \in 1..Len(c.started) : c.started[k] = selected[k]
           /\ Len(c.started) <= Len(c.loadedModels) + 1
           /\ NonDecreasing(c.onProgress)
           /\ c.onComplete = 1 =>
                 /\ Len(c.completed) = Len(selected)
                 /\ \A k \in 1..Len(selected) : c.completed[k].file = selected[k]

\* a call with two model files has completed
C30_Witness ==
    \E i \in 1..Len(calls) :
        /\ calls[i].onComplete = 1
        /\ Len(calls[i].completed) = 2
        /\ Len(calls[i].onProgress) = 2

\* call i has ended: by onComplete, by a validation failure or by the
\* onError of a model load
Ended(i) == calls[i].phase \in {"done", "failed", "rejected"}

\* call i is in progress: a read of it is in flight or its timer is set
InProgress(i) ==
    \/ calls[i].phase \in {"readMTL", "readModel", "pause"}
    \/ calls[i].phase = "readTextures" /\ calls[i].texLeft # {}

\* C31: isLoading is true exactly while a loadFiles call is in progress:
\* false before any load and once every call has ended by completion,
\* validation failure or a model load error, true while a call is in
\* progress, also with two calls overlapping.
C31_IsLoadingWhileInProgress ==
    /\ (\A i \in 1..Len(calls) : Ended(i)) => ~isLoading
    /\ (\E i \in 1..Len(calls) : InProgress(i)) => isLoading

\* with one call only, isLoading is true while it is in progress
SingleCallInProgressIsLoading ==
    (Len(calls) = 1 /\ InProgress(1)) => isLoading

\* a call that ends by onComplete or by a validation failure leaves
\* isLoading false at that moment
CompletionResetsIsLoading ==
    \A i \in 1..Len(calls) :
        (loaderLast.call = i /\ calls[i].phase \in {"done", "rejected"}
            /\ calls[i].files # <<>>) => ~isLoading

\* the claim for one call alone that ended by the onError of a model load;
\* the code does not keep it
SingleCallErrorResetsIsLoading ==
    (Len(calls) = 1 /\ calls[1].phase = "failed") => ~isLoading

\* C32: once a file selection has shown the loading indicator, the
\* indicator is eventually hidden again, whatever the outcome of the load.
C32_LoaderEventuallyHidden == uiLoaderShown ~> ~uiLoaderShown

\* a load that ends with onComplete or onError hides the indicator
TerminalCallbackHidesLoader ==
    [][\A i \in 1..Len(calls) :
          (calls'[i].onComplete + calls'[i].onError
             > calls[i].onComplete + calls[i].onError) => ~uiLoaderShown']_vars

\* in the single-model viewer the indicator is visible only while a read
\* is in flight, and every end of a read hides it
ViewerLoaderShownOnlyWhileReading == loaderShown => pending # <<>>

\* the step of the removal timer of the test cube testCubeTimer
CubeTimerFires == testCubeTimer # 0 /\ vLastOp' = "cubeTimeout" /\ vSteps' = vSteps + 1

\* the timer takes nothing but its cube out of the scene, leaves another
\* current model alone, and a cube that is still current leaves the scene
\* and leaves no current model
TimerTouchesNothingElse ==
    [][CubeTimerFires =>
          /\ sceneObjs \ {testCubeTimer} \subseteq sceneObjs'
          /\ sceneObjs' \subseteq sceneObjs
          /\ currentModel.obj # testCubeTimer => currentModel' = currentModel
          /\ currentModel.obj = testCubeTimer =>
                 /\ testCubeTimer \notin sceneObjs'
                 /\ currentModel' = NoModel]_vars

\* C33: when the removal timer of a non-permanent test cube fires, that
\* cube and nothing else leaves the scene; a model that became current in
\* the meantime stays in the scene and stays the current model, and a cube
\* that is still current leaves no current model.
C33_TimerRemovesOnlyItsCube ==
    [][CubeTimerFires =>
          /\ sceneObjs' = sceneObjs \ {testCubeTimer}
          /\ testCubeTimer \notin sceneObjs'
          /\ currentModel.obj # testCubeTimer => currentModel' = currentModel
          /\ currentModel.obj = testCubeTimer => currentModel' = NoModel]_vars

\* the timer has fired while a model loaded in the meantime was current
TimerFiredBesideLoadedModel ==
    /\ vLastOp = "cubeTimeout"
    /\ currentModel # NoModel
    /\ currentModel.obj \in sceneObjs
    /\ vLastFit.kind = "auto"

\* the timer has fired while its cube was still current
CubeRemovedWhileCurrent == vLastOp = "cubeTimeout" /\ currentModel = NoModel

\* C34: whenever the home page is the current page, Scene3D holds no
\* loaded model: no load started on the scenario page adds one after
\* goHome has cleared the scene.
C34_HomePageSceneEmpty == currentPage = "home" => sceneModels = <<>>

\* goHome itself leaves the scene empty
GoHomeClearsScene == loaderLast.op = "goHome" => sceneModels = <<>>

\* a step in which the load of a selected file fails: a selection with an
\* unsupported extension, a read error or a parse error
LoadFails ==
    /\ vSteps' = vSteps + 1
    /\ \/ vLastOp' \in {"readError", "parseError"}
       \/ vLastOp' = "select" /\ pending' = pending

\* C36: after a failed load the model displayed before it is still in the
\* scene and still the current model.
C36_FailedLoadKeepsModel ==
    [][LoadFails =>
          /\ currentModel' = currentModel
          /\ currentModel' # NoModel => currentModel'.obj \in sceneObjs']_vars

\* a failed load leaves currentModel as it was
FailedLoadKeepsCurrentModel == [][LoadFails => currentModel' = currentModel]_vars

\* C37: the materials an OBJ model is parsed with are those of the MTL
\* file associated with it in its own loadFiles call; an OBJ model without
\* one is parsed without materials.
C37_MaterialsFromOwnCall ==
    \A i \in 1..Len(calls) :
        \A k \in 1..Len(calls[i].loadedModels) :
            LET m == calls[i].loadedModels[k]
            IN m.materials # Null =>
                   m.materials = AssociatedMaterial(calls[i].groups, m.file.base)

\* within the first loadFiles call, made alone, the materials are the call's own
FirstCallMaterialsOwn ==
    Len(calls) = 1 =>
        \A k \in 1..Len(calls[1].loadedModels) :
            LET m == calls[1].loadedModels[k]
            IN m.materials # Null =>
                   m.materials = AssociatedMaterial(calls[1].groups, m.file.base)

\* the target lies ahead of the camera along its view direction
FrontOfTarget(cam) ==
    LET toAim == VSub(cam.aim, cam.pos)
    IN toAim.x * cam.dir.x + toAim.y * cam.dir.y + toAim.z * cam.dir.z > 0

\* the longest zoom sequence followed from a fitted view
MaxZooms == 3

\* the cameras that up to n wheel events lead to from the cameras cams
RECURSIVE ZoomedViews(_, _)
ZoomedViews(cams, n) ==
    IF n = 0 THEN cams
    ELSE cams \cup ZoomedViews({ZoomCamera(c, deltaY \div WheelUnitsPerStep) :
                                   c \in cams, deltaY \in WheelDeltas}, n - 1)

\* C38: no sequence of zoom operations from a fitted view takes the camera
\* to the target or past it: the target stays ahead of the camera along
\* the view direction.
C38_ZoomStaysBeforeTarget ==
    (lastOp = "fit" /\ FrontOfTarget(camera)) =>
        \A c \in ZoomedViews({camera}, MaxZooms) : FrontOfTarget(c)

\* the same for the wheel events as they happen: a zoom step from a
\* camera before its target ends before the target
ZoomStepStaysBeforeTarget ==
    [][(lastOp' = "zoom" /\ steps' = steps + 1 /\ FrontOfTarget(camera))
          => FrontOfTarget(Cam(camPos', camDir', camAim'))]_vars

\* violated as well: the same from the fitted view of a model with geometry
ZoomStaysBeforeTargetWithGeometry ==
    (/\ lastOp = "fit"
     /\ FrontOfTarget(camera)
     /\ \A k \in 1..Len(loadedModels) : loadedModels[k] # "empty") =>
        \A c \in ZoomedViews({camera}, MaxZooms) : FrontOfTarget(c)

\* handleMouseWheel n times with deltaY > 0, the steps towards the target
RECURSIVE ViewerZoomedIn(_, _, _)
ViewerZoomedIn(pos, dir, n) ==
    IF n = 0 THEN pos
    ELSE IF n = 1 THEN WheelZoom(pos, dir, 1)
         ELSE LET half == ViewerZoomedIn(pos, dir, n \div 2)
              IN IF half \in {half}      \* the first half is computed first
                 THEN ViewerZoomedIn(half, dir, n - n \div 2)
                 ELSE pos

\* the number of wheel steps followed in the single-model viewer
MaxViewerZooms == 30

\* violated as well: in the single-model viewer the steps of 0.2 from the
\* view fitted to a loaded model keep the camera before the origin
ViewerZoomStaysBeforeTarget ==
    vLastOp = "fit" =>
        \A n \in 0..MaxViewerZooms :
            FrontOfTarget(Cam(ViewerZoomedIn(vCamPos, vCamDir, n), vCamDir, Zero3))

\* the init() calls were made in the order of the sequence, each after
\* the one before it had resolved
InitInOrder ==
    /\ Len(initLog) <= Len(InitSequence)
    /\ \A k \in 1..Len(initLog) :
          /\ initLog[k].module = InitSequence[k]
          /\ k > 1 => ~InitRejects(initLog[k - 1].outcome)

\* the initialisation of a module did not succeed
InitFailed(entry) == entry.outcome # "returned"

\* C35: start-up initialises ModelLoader, then UI, each after the
\* previous one resolved; App.initialized is true only when both
\* initialisations succeeded; once one has failed no further module is
\* initialised, the fatal-error overlay is shown and initialized stays
\* false; 'app:initialized' and 'app:error' are never both dispatched.
C35_StartupAllOrNothing ==
    /\ InitInOrder
    /\ initialized =>
          /\ Len(initLog) = Len(InitSequence)
          /\ \A k \in 1..Len(initLog) : ~InitFailed(initLog[k])
    /\ \A k \in 1..Len(initLog) :
          InitFailed(initLog[k]) =>
              /\ k = Len(initLog)
              /\ fatalShown
              /\ ~initialized
    /\ ~(\E j, k \in 1..Len(dispatched) :
             dispatched[j] = "app:initialized" /\ dispatched[k] = "app:error")

\* what holds of the claim: the order, at most one of the two events, and
\* all of it for the failures that reach App as a rejection
StartupAsAppSeesIt ==
    /\ InitInOrder
    /\ Len(dispatched) <= 1
    /\ initialized <=> dispatched = <<"app:initialized">>
    /\ initialized =>
          /\ modules = {"ModelLoader", "UI"}
          /\ \A k \in 1..Len(initLog) : ~InitRejects(initLog[k].outcome)
    /\ \A k \in 1..Len(initLog) :
          InitRejects(initLog[k].outcome) =>
              /\ k = Len(initLog)
              /\ fatalShown
              /\ ~initialized
              /\ dispatched = <<"app:error">>

====
